---- MODULE Spec2Model ----
\* Persistence matrix engine of gudhi-devel: Z2 vector columns with their row
\* access, the boundary matrix built on them (insertion, removal of the last
\* column, lazy row swaps) and chain columns with their pivot dictionary.
EXTENDS Integers, Sequences, FiniteSets, TLC

VARIABLES
    opts,              \* compile-time options of the instantiated matrix
    matrix_,           \* Boundary_matrix::matrix_ : MatIdx -> column [dim_, column_]
    rows_,             \* Matrix_row_access_option::rows_ : row -> column indices of its cells
    nextInsertIndex_,  \* Boundary_matrix::nextInsertIndex_
    dimensions_,       \* Matrix_dimension_option: number of columns per dimension
    maxDim_,           \* Matrix_dimension_option: maximal dimension
    rowSwapped_,       \* Base_swap_option::rowSwapped_
    indexToRow_,       \* Base_swap_option::indexToRow_
    rowToIndex_,       \* Base_swap_option::rowToIndex_
    chains,            \* chain columns: index -> [column_, pivot_, pairedColumn_]
    pivotToColumnIndex_, \* dictionary shared by the chain columns: pivot -> column index
    productOfAllCharacteristics_, \* multi-field: static product of the characteristics
    primes_,           \* multi-field: static list of the characteristics
    partials_,         \* multi-field: static list of the partial identities
    element_,          \* multi-field: element_ of the element operated on
    ba,                \* cubical complex under test: [sizes, periodic, incidence]
    all_cells_it,      \* cubical complex test: the cell all_cells_iterator stands on
    elems_in_boundary, \* cubical complex test: non-zero coefficients accumulated on the cells
    live,              \* ghost: insertions minus successful removals
    ub,                \* ghost: the last call executed undefined behaviour
    other,             \* a second Boundary_matrix object, the source of copies
    last               \* ghost: the last call, its arguments, result and pre-state

vars == <<opts, matrix_, rows_, nextInsertIndex_, dimensions_, maxDim_,
          rowSwapped_, indexToRow_, rowToIndex_, chains, pivotToColumnIndex_,
          productOfAllCharacteristics_, primes_, partials_, element_,
          ba, all_cells_it, elems_in_boundary,
          live, ub, other, last>>

\* ---------------------------------------------------------------- bounds
MaxRow == 3        \* rows of the column-level model are 0 .. MaxRow-1
NumCols == 2       \* columns of the column-level model are 0 .. NumCols-1

None == -1         \* the "no pivot" sentinel

\* ---------------------------------------------------------------- helpers
Min(S) == CHOOSE x \in S : \A y \in S : x <= y
Max(S) == CHOOSE x \in S : \A y \in S : x >= y

RECURSIVE SetToSeq(_)
SetToSeq(S) == IF S = {} THEN <<>> ELSE <<Min(S)>> \o SetToSeq(S \ {Min(S)})

Range(s) == {s[i] : i \in 1..Len(s)}

Put(f, k, v) == [x \in (DOMAIN f) \cup {k} |-> IF x = k THEN v ELSE f[x]]
Drop(f, k) == [x \in (DOMAIN f) \ {k} |-> f[x]]

EmptyFun == [x \in {} |-> {}]

\* ------------------------------------------------ row access of a column
\* Row_access_option::insert_cell(rowIndex, cell): the cell of column c joins row r.
insert_cell_row(rows, r, c) ==
    Put(rows, r, (IF r \in DOMAIN rows THEN rows[r] ELSE {}) \cup {c})

\* Row_access_option::unlink(cell): the cell of column c leaves the row it is linked in.
unlink(rows, r, c) ==
    IF r \in DOMAIN rows THEN [rows EXCEPT ![r] = @ \ {c}] ELSE rows

\* ------------------------------------------------------ Z2_vector_column
\* A column value is the vector column_ of row indices; the state threaded through
\* the operations is [column |-> vector, rows |-> row container].

delete_cell_keeps_row(ra, rows, c, r) == rows

\* _delete_cell(cell): unlink from the row (row access active), then destroy.
delete_cell(ra, rows, c, r) == IF ra THEN unlink(rows, r, c) ELSE rows

\* _insert_cell(rowIndex, column): new cell pushed at the back and linked in its row.
insert_cell(ra, rowIndex, column, rows, c) ==
    [column |-> Append(column, rowIndex),
     rows |-> IF ra THEN insert_cell_row(rows, rowIndex, c) ELSE rows]

\* _update_cell(rowIndex, position): new cell stored at position and linked in its row.
update_cell(ra, rowIndex, position, column, rows, c) ==
    [column |-> [column EXCEPT ![position] = rowIndex],
     rows |-> IF ra THEN insert_cell_row(rows, rowIndex, c) ELSE rows]

\* Constructor from a container of non-zero row indices: column_(size) then
\* _update_cell(id, i++) for every id.
RECURSIVE ConstructLoop(_, _, _, _, _, _)
ConstructLoop(ra, ids, i, column, rows, c) ==
    IF i > Len(ids) THEN [column |-> column, rows |-> rows]
    ELSE LET st == update_cell(ra, ids[i], i, column, rows, c)
         IN ConstructLoop(ra, ids, i + 1, st.column, st.rows, c)

Z2_vector_column(ra, ids, rows, c) ==
    ConstructLoop(ra, ids, 1, [i \in 1..Len(ids) |-> None], rows, c)

\* dim_ of a column constructed without / with an explicit dimension.
ConstructDim(ids, dimension) ==
    IF dimension = -1 THEN (IF Len(ids) = 0 THEN 0 ELSE Len(ids) - 1) ELSE dimension

\* ~Z2_vector_column and clear(): _delete_cell on every cell.
RECURSIVE DeleteAll(_, _, _, _, _)
DeleteAll(ra, column, i, rows, c) ==
    IF i > Len(column) THEN rows
    ELSE DeleteAll(ra, column, i + 1, delete_cell(ra, rows, c, column[i]), c)

clear(ra, column, rows, c) ==
    [column |-> <<>>, rows |-> DeleteAll(ra, column, 1, rows, c)]

\* is_non_zero(rowIndex): linear search.
is_non_zero(column, rowIndex) == \E i \in 1..Len(column) : column[i] = rowIndex

is_empty(column) == Len(column) = 0

get_pivot_front(column) == IF Len(column) = 0 THEN None ELSE column[1]

\* get_pivot(): the row index of the back cell, -1 for an empty column.
get_pivot(column) == IF Len(column) = 0 THEN None ELSE column[Len(column)]

\* clear(rowIndex): walk to the first cell of that row and delete it.
RECURSIVE FindRow(_, _, _)
FindRow(column, rowIndex, i) ==
    IF i > Len(column) THEN 0
    ELSE IF column[i] = rowIndex THEN i ELSE FindRow(column, rowIndex, i + 1)

clear_row(ra, column, rowIndex, rows, c) ==
    LET it == FindRow(column, rowIndex, 1)
    IN IF it = 0 THEN [column |-> column, rows |-> rows]
       ELSE [column |-> SubSeq(column, 1, it - 1) \o SubSeq(column, it + 1, Len(column)),
             rows |-> delete_cell(ra, rows, c, column[it])]

\* std::sort of the cells by row index.
RECURSIVE InsertSorted(_, _)
InsertSorted(s, x) ==
    IF s = <<>> THEN <<x>>
    ELSE IF x < s[1] THEN <<x>> \o s ELSE <<s[1]>> \o InsertSorted(Tail(s), x)

RECURSIVE SortCells(_)
SortCells(s) == IF s = <<>> THEN <<>> ELSE InsertSorted(SortCells(Tail(s)), s[1])

RECURSIVE UnlinkAll(_, _, _, _)
UnlinkAll(linked, i, rows, c) ==
    IF i > Len(linked) THEN rows ELSE UnlinkAll(linked, i + 1, unlink(rows, linked[i], c), c)

RECURSIVE LinkAll(_, _, _, _)
LinkAll(column, i, rows, c) ==
    IF i > Len(column) THEN rows
    ELSE LinkAll(column, i + 1, insert_cell_row(rows, column[i], c), c)

\* valueMap[k]: operator[] of a dictionary default-constructs a missing entry.
MapGet(valueMap, k) == IF k \in DOMAIN valueMap THEN valueMap[k] ELSE 0

\* The cells after cell->set_row_index(valueMap[cell->get_row_index()]).
Relabelled(column, valueMap) == [i \in 1..Len(column) |-> MapGet(valueMap, column[i])]

reorder_keeps_links(ra, column, valueMap, rows, c) ==
    [column |-> SortCells(Relabelled(column, valueMap)),
     rows |-> IF ra THEN LinkAll(Relabelled(column, valueMap), 1, rows, c)
              ELSE rows]

reorder_sorts_first(ra, column, valueMap, rows, c) ==
    [column |-> Relabelled(SortCells(column), valueMap),
     rows |-> IF ra THEN LinkAll(Relabelled(column, valueMap), 1,
                                 UnlinkAll(column, 1, rows, c), c)
              ELSE rows]

reorder_unsorted(ra, column, valueMap, rows, c) ==
    [column |-> Relabelled(column, valueMap),
     rows |-> IF ra THEN LinkAll(Relabelled(column, valueMap), 1,
                                 UnlinkAll(column, 1, rows, c), c)
              ELSE rows]

\* reorder(valueMap): relabel every cell and unlink it from its row, link every cell
\* in its new row, sort the cells.
reorder(ra, column, valueMap, rows, c) ==
    [column |-> SortCells(Relabelled(column, valueMap)),
     rows |-> IF ra THEN LinkAll(Relabelled(column, valueMap), 1,
                                 UnlinkAll(column, 1, rows, c), c)
              ELSE rows]

\* operator+= : the merge walk over source (itToAdd = i) and target (itTarget = j).
RECURSIVE MergeWalk(_, _, _, _, _, _, _, _)
MergeWalk(ra, src, tgt, i, j, newColumn, rows, c) ==
    IF i <= Len(src) /\ j <= Len(tgt) THEN
        IF src[i] = tgt[j]
        THEN MergeWalk(ra, src, tgt, i + 1, j + 1, newColumn,
                       delete_cell(ra, rows, c, tgt[j]), c)
        ELSE IF src[i] < tgt[j]
        THEN LET st == insert_cell(ra, src[i], newColumn, rows, c)
             IN MergeWalk(ra, src, tgt, i + 1, j, st.column, st.rows, c)
        ELSE MergeWalk(ra, src, tgt, i, j + 1, Append(newColumn, tgt[j]), rows, c)
    ELSE IF i <= Len(src) THEN
        LET st == insert_cell(ra, src[i], newColumn, rows, c)
        IN MergeWalk(ra, src, tgt, i + 1, j, st.column, st.rows, c)
    ELSE IF j <= Len(tgt) THEN
        MergeWalk(ra, src, tgt, i, j + 1, Append(newColumn, tgt[j]), rows, c)
    ELSE [column |-> newColumn, rows |-> rows]

RECURSIVE CopyIn(_, _, _, _, _, _)
CopyIn(ra, src, i, column, rows, c) ==
    IF i > Len(src) THEN [column |-> column, rows |-> rows]
    ELSE LET st == insert_cell(ra, src[i], column, rows, c)
         IN CopyIn(ra, src, i + 1, st.column, st.rows, c)

plus_eq_keeps_common(ra, tgt, src, rows, c) ==
    [column |-> SortCells(SetToSeq(Range(tgt) \cup Range(src))),
     rows |-> IF ra THEN LinkAll(src, 1, rows, c) ELSE rows]

plus_eq_appends(ra, tgt, src, rows, c) ==
    IF src = <<>> THEN [column |-> tgt, rows |-> rows]
    ELSE LET kept == SelectSeq(tgt, LAMBDA r : ~is_non_zero(src, r))
             gone == SelectSeq(tgt, LAMBDA r : is_non_zero(src, r))
             new == SelectSeq(src, LAMBDA r : ~is_non_zero(tgt, r))
             rows1 == IF ra THEN UnlinkAll(gone, 1, rows, c) ELSE rows
         IN [column |-> kept \o new,
             rows |-> IF ra THEN LinkAll(new, 1, rows1, c) ELSE rows1]

\* operator+=(column): target tgt of column index c, source cells src.
plus_eq(ra, tgt, src, rows, c) ==
    IF src = <<>> THEN [column |-> tgt, rows |-> rows]
    ELSE IF tgt = <<>> THEN CopyIn(ra, src, 1, tgt, rows, c)
    ELSE MergeWalk(ra, src, tgt, 1, 1, <<>>, rows, c)

\* operator*=(v): over Z2 an even v clears the column.
times_eq(ra, column, v, rows, c) ==
    IF v % 2 = 0 THEN clear(ra, column, rows, c) ELSE [column |-> column, rows |-> rows]

\* multiply_and_add(v, column): this = this * v + column
z2_multiply_and_add_target(ra, tgt, v, src, rows, c) ==
    LET st == times_eq(ra, tgt, v, rows, c)
    IN plus_eq(ra, st.column, src, st.rows, c)

\* multiply_and_add(column, v): this = this + column * v
z2_multiply_and_add_source(ra, tgt, src, v, rows, c) ==
    IF v % 2 = 0 THEN [column |-> tgt, rows |-> rows] ELSE plus_eq(ra, tgt, src, rows, c)

\* ------------------------------------------------- column-level system
\* Columns 0 .. NumCols-1 sharing one row container, driven by arbitrary
\* interleavings of the column operations.
Rows == 0 .. (MaxRow - 1)
ColIds == 0 .. (NumCols - 1)

\* Row-index maps handed to reorder: the adjacent transpositions (their
\* compositions over successive calls are all the permutations).
Transposition(a, b) == [r \in Rows |-> IF r = a THEN b ELSE IF r = b THEN a ELSE r]
Perms == {Transposition(a, a + 1) : a \in Rows \ {MaxRow - 1}}

NoOpts == [has_map_column_container |-> FALSE, has_row_access |-> FALSE,
           has_removable_rows |-> FALSE, activeSwapOption |-> FALSE,
           numberOfColumns |-> 0]

\* The second matrix while it is not constructed.
NoMatrix == [opts |-> NoOpts, matrix_ |-> EmptyFun, rows_ |-> EmptyFun,
             nextInsertIndex_ |-> -1, dimensions_ |-> <<>>, maxDim_ |-> -1,
             rowSwapped_ |-> FALSE, indexToRow_ |-> EmptyFun,
             rowToIndex_ |-> EmptyFun, ub |-> FALSE]

NoObs == [n |-> 0, dimensions |-> <<>>, maxDim |-> -1, nonEmptyRows |-> {}]

NoEager == [matrix_ |-> EmptyFun, rows_ |-> EmptyFun]

NoLast == [op |-> "init", t |-> None, s |-> None, ret |-> None,
           pre |-> <<>>, preS |-> <<>>, preRows |-> EmptyFun,
           rep |-> FALSE, pre2 |-> <<>>, pre2S |-> <<>>, pre2Rows |-> EmptyFun,
           pending |-> FALSE, stale |-> FALSE, ref |-> None,
           dim |-> None, obs |-> NoObs, afterInsert |-> FALSE, obs2 |-> NoObs,
           eager |-> NoEager, outcome |-> "", barcode |-> {}]

\* Static members before initialize, no element constructed.
FieldIdle ==
    /\ productOfAllCharacteristics_ = 0 /\ primes_ = <<>> /\ partials_ = <<>>
    /\ element_ = 0

FieldUnchanged == UNCHANGED <<productOfAllCharacteristics_, primes_, partials_, element_>>

NoComplex == [sizes |-> <<>>, periodic |-> FALSE, incidence |-> FALSE]

CubicalIdle == ba = NoComplex /\ all_cells_it = 0 /\ elems_in_boundary = <<>>

CubicalUnchanged == UNCHANGED <<ba, all_cells_it, elems_in_boundary>>

ChainIdle == chains = EmptyFun /\ pivotToColumnIndex_ = EmptyFun /\ FieldIdle /\ CubicalIdle

MatrixIdle ==
    /\ ChainIdle
    /\ nextInsertIndex_ = 0 /\ dimensions_ = <<>> /\ maxDim_ = -1
    /\ rowSwapped_ = FALSE /\ indexToRow_ = EmptyFun /\ rowToIndex_ = EmptyFun
    /\ live = 0 /\ ub = FALSE /\ other = NoMatrix

MatrixUnchanged ==
    /\ UNCHANGED <<opts, nextInsertIndex_, dimensions_, maxDim_, rowSwapped_,
                   indexToRow_, rowToIndex_, chains, pivotToColumnIndex_, live, ub, other>>
    /\ FieldUnchanged
    /\ CubicalUnchanged

InitCol ==
    /\ opts = [NoOpts EXCEPT !.has_row_access = TRUE]
    /\ matrix_ = EmptyFun
    /\ rows_ = [r \in Rows |-> {}]
    /\ MatrixIdle
    /\ last = NoLast

Cells(c) == matrix_[c].column_

\* Column c constructed from a boundary given in increasing row order, through
\* the constructor taking (columnIndex, nonZeroRowIndices, dimension, rowContainer).
ColConstruct(c, b, dimension) ==
    /\ c \notin DOMAIN matrix_
    /\ \E ids \in {SetToSeq(b)} :
          \E st \in {Z2_vector_column(opts.has_row_access, ids, rows_, c)} :
             /\ matrix_' = Put(matrix_, c, [dim_ |-> ConstructDim(ids, dimension),
                                            column_ |-> st.column])
             /\ rows_' = st.rows
          /\ last' = [NoLast EXCEPT !.op = "construct", !.t = c]
    /\ MatrixUnchanged

\* matrix_[t] += matrix_[s]
ColPlusEq(t, s) ==
    /\ t \in DOMAIN matrix_ /\ s \in DOMAIN matrix_
    /\ \E st \in {plus_eq(opts.has_row_access, Cells(t), Cells(s), rows_, t)},
          rep \in {last.op = "plus_eq" /\ last.t = t /\ last.s = s /\ t # s} :
          /\ matrix_' = [matrix_ EXCEPT ![t].column_ = st.column]
          /\ rows_' = st.rows
          /\ last' = [NoLast EXCEPT !.op = "plus_eq", !.t = t, !.s = s,
                         !.pre = Cells(t), !.preS = Cells(s), !.preRows = rows_,
                         !.rep = rep,
                         !.pre2 = IF rep THEN last.pre ELSE <<>>,
                         !.pre2S = IF rep THEN last.preS ELSE <<>>,
                         !.pre2Rows = IF rep THEN last.preRows ELSE EmptyFun]
    /\ MatrixUnchanged

ColClear(c) ==
    /\ c \in DOMAIN matrix_
    /\ \E st \in {clear(opts.has_row_access, Cells(c), rows_, c)} :
          /\ matrix_' = [matrix_ EXCEPT ![c].column_ = st.column]
          /\ rows_' = st.rows
          /\ last' = [NoLast EXCEPT !.op = "clear", !.t = c]
    /\ MatrixUnchanged

ColClearRow(c, r) ==
    /\ c \in DOMAIN matrix_
    /\ \E st \in {clear_row(opts.has_row_access, Cells(c), r, rows_, c)} :
          /\ matrix_' = [matrix_ EXCEPT ![c].column_ = st.column]
          /\ rows_' = st.rows
          /\ last' = [NoLast EXCEPT !.op = "clear_row", !.t = c]
    /\ MatrixUnchanged

ColReorder(c, valueMap) ==
    /\ c \in DOMAIN matrix_
    /\ \E st \in {reorder(opts.has_row_access, Cells(c), valueMap, rows_, c)} :
          /\ matrix_' = [matrix_ EXCEPT ![c].column_ = st.column]
          /\ rows_' = st.rows
          \* ghost ret: 1 when the relabelled cells were out of order before the sort
          /\ last' = [NoLast EXCEPT !.op = "reorder", !.t = c,
                         !.ret = IF Relabelled(Cells(c), valueMap) # st.column
                                 THEN 1 ELSE 0]
    /\ MatrixUnchanged

\* ~Z2_vector_column
ColDestroy(c) ==
    /\ c \in DOMAIN matrix_
    /\ matrix_' = Drop(matrix_, c)
    /\ rows_' = DeleteAll(opts.has_row_access, Cells(c), 1, rows_, c)
    /\ last' = [NoLast EXCEPT !.op = "destroy", !.t = c]
    /\ MatrixUnchanged

NextCol ==
    \/ \E c \in ColIds, b \in SUBSET Rows : ColConstruct(c, b, 0)
    \/ \E t \in ColIds, s \in ColIds : ColPlusEq(t, s)
    \/ \E c \in ColIds : ColClear(c)
    \/ \E c \in ColIds, r \in Rows : ColClearRow(c, r)
    \/ \E c \in ColIds, p \in Perms : ColReorder(c, p)
    \/ \E c \in ColIds : ColDestroy(c)

SpecCol == InitCol /\ [][NextCol]_vars

\* ---------------------------------------------------- column-level claims
RowCells(r) == IF r \in DOMAIN rows_ THEN rows_[r] ELSE {}

\* C2: with row access, the cells reachable from row r are exactly the cells of
\* the live columns whose row index is r.
RowColumnConsistency ==
    opts.has_row_access =>
        \A r \in Rows : RowCells(r) = {c \in DOMAIN matrix_ : is_non_zero(Cells(c), r)}

RowColumnConsistencyWitness ==
    /\ opts.has_row_access
    /\ last.op = "plus_eq"
    /\ \E r \in Rows : last.t \in last.preRows[r] /\ last.t \notin RowCells(r)
    /\ \E r \in Rows : last.t \notin last.preRows[r] /\ last.t \in RowCells(r)
    /\ \E r \in Rows : Cardinality(RowCells(r)) = NumCols

\* C4: cells sorted by strictly increasing row index, no row twice, and
\* get_pivot() is the maximal row index, or -1 for an empty column.
ColumnOrdering ==
    \A c \in DOMAIN matrix_ :
        /\ \A i, j \in 1..Len(Cells(c)) : i < j => Cells(c)[i] < Cells(c)[j]
        /\ get_pivot(Cells(c)) =
              (IF Range(Cells(c)) = {} THEN None ELSE Max(Range(Cells(c))))

ColumnOrderingWitness ==
    /\ last.op = "reorder"
    /\ last.ret = 1
    /\ Len(Cells(last.t)) >= 2

\* Columns constructed and relabelled.
NextReorder ==
    \/ \E c \in ColIds, b \in SUBSET Rows : ColConstruct(c, b, 0)
    \/ \E c \in ColIds, p \in Perms : ColReorder(c, p)

SpecReorder == InitCol /\ [][NextReorder]_vars

RowPermutations == {p \in [Rows -> Rows] : \A a, b \in Rows : p[a] = p[b] => a = b}

\* C36: reorder(valueMap) with an injective map relabels every cell: the new row set
\* is the image of the previous one, the number of cells is unchanged, the cells are
\* sorted by increasing new row index, and with row access the column is linked in
\* exactly the rows of its new indices, the links of the other columns being kept.
ReorderRelabelsEveryCell ==
    \A c \in DOMAIN matrix_ : \A p \in RowPermutations :
        \E st \in {reorder(opts.has_row_access, Cells(c), p, rows_, c)} :
            /\ Range(st.column) = {p[r] : r \in Range(Cells(c))}
            /\ Len(st.column) = Len(Cells(c))
            /\ \A i, j \in 1..Len(st.column) : i < j => st.column[i] < st.column[j]
            /\ opts.has_row_access =>
                  \A r \in DOMAIN st.rows :
                      /\ c \in st.rows[r] <=> r \in Range(st.column)
                      /\ st.rows[r] \ {c} = rows_[r] \ {c}

ReorderRelabelsEveryCellWitness ==
    /\ last.op = "reorder"
    /\ last.ret = 1
    /\ Len(Cells(last.t)) >= 2
    /\ \A r \in Range(Cells(last.t)) : last.t \in RowCells(r)
    /\ \E d \in DOMAIN matrix_ : d # last.t /\ Cells(d) # <<>>

\* ---------------------------------------------------- every removal of a cell
\* matrix_[c] *= v
ColTimesEq(c, v) ==
    /\ c \in DOMAIN matrix_
    /\ \E st \in {times_eq(opts.has_row_access, Cells(c), v, rows_, c)} :
          /\ matrix_' = [matrix_ EXCEPT ![c].column_ = st.column]
          /\ rows_' = st.rows
          /\ last' = [NoLast EXCEPT !.op = "operator*=", !.t = c, !.ret = v,
                         !.pre = Cells(c), !.preRows = rows_]
    /\ MatrixUnchanged

NextRemoval ==
    \/ NextCol
    \/ \E c \in ColIds, v \in 0..2 : ColTimesEq(c, v)

SpecRemoval == InitCol /\ [][NextRemoval]_vars

\* The cells (column, row) present in the columns / referenced from the rows.
CellsOf(matrix) == {cr \in (DOMAIN matrix) \X Rows : is_non_zero(matrix[cr[1]].column_, cr[2])}

LinksOf(rows) == {cr \in ColIds \X (DOMAIN rows) : cr[1] \in rows[cr[2]]}

\* C37: every removal of a cell (cancellation inside operator+=, clear(),
\* clear(row), operator*= by an even value, column destruction) unlinks the cell
\* from its row: in no reachable state does a row reference a cell that is not in
\* a live column.
RemovalUnlinksTheCell ==
    opts.has_row_access => LinksOf(rows_) \subseteq CellsOf(matrix_)

RemovalUnlinksTheCellWitness ==
    /\ opts.has_row_access
    /\ last.op = "operator*="
    /\ last.ret = 2
    /\ Len(last.pre) >= 2
    /\ \A r \in Range(last.pre) : last.t \in last.preRows[r] /\ last.t \notin RowCells(r)
    /\ \E d \in DOMAIN matrix_ : d # last.t /\ Range(Cells(d)) \cap Range(last.pre) # {}

SymDiff(A, B) == (A \ B) \cup (B \ A)

\* C5: over Z2, target += source leaves in target the symmetric difference of the
\* two previous row sets.
PlusEqIsSymDiff ==
    last.op = "plus_eq" =>
        Range(Cells(last.t)) = SymDiff(Range(last.pre), Range(last.preS))

PlusEqIsSymDiffWitness ==
    /\ last.op = "plus_eq"
    /\ Range(last.pre) \cap Range(last.preS) # {}
    /\ Range(last.pre) \ Range(last.preS) # {}
    /\ Range(last.preS) \ Range(last.pre) # {}

\* C6: over Z2, target += source twice in a row, for distinct columns, restores the
\* target (same cells, same order), the row membership, and leaves source unchanged.
PlusEqTwiceRestores ==
    last.rep =>
        /\ Cells(last.t) = last.pre2
        /\ rows_ = last.pre2Rows
        /\ Cells(last.s) = last.pre2S
        /\ last.preS = last.pre2S

PlusEqTwiceRestoresWitness ==
    /\ last.rep
    /\ opts.has_row_access
    /\ Range(last.pre2) \cap Range(last.pre2S) # {}
    /\ Range(last.pre2) \ Range(last.pre2S) # {}
    /\ Range(last.pre2S) \ Range(last.pre2) # {}

\* ------------------------------------------------------ Boundary_matrix
\* The operations are functions of the matrix object m, a record of its members.
MaxColumns == 3    \* at most MaxColumns columns are inserted
MaxDim == 1        \* explicit dimension arguments are 0 .. MaxDim
Reserved == 2      \* numberOfColumns given to the reserving constructor

Self == [opts |-> opts, matrix_ |-> matrix_, rows_ |-> rows_,
         nextInsertIndex_ |-> nextInsertIndex_, dimensions_ |-> dimensions_,
         maxDim_ |-> maxDim_, rowSwapped_ |-> rowSwapped_,
         indexToRow_ |-> indexToRow_, rowToIndex_ |-> rowToIndex_, ub |-> FALSE]

Size(f) == Cardinality(DOMAIN f)

Identity(D) == [x \in D |-> x]

\* std::vector::resize(n) of the row container, when it grows.
Resize(rows, n) == [r \in (DOMAIN rows) \cup (0 .. (n - 1)) |-> IF r \in DOMAIN rows THEN rows[r] ELSE {}]

\* Matrix_dimension_option::update_up(dimension): one more column of that dimension.
update_up(m, dimension) ==
    LET grown == [i \in 1..(IF Len(m.dimensions_) <= dimension THEN dimension + 1
                            ELSE Len(m.dimensions_)) |->
                     IF i <= Len(m.dimensions_) THEN m.dimensions_[i] ELSE 0]
        counted == [grown EXCEPT ![dimension + 1] = @ + 1]
    IN [m EXCEPT !.dimensions_ = counted, !.maxDim_ = Len(counted) - 1]

RECURSIVE PopZeros(_)
PopZeros(d) == IF d # <<>> /\ d[Len(d)] = 0 THEN PopZeros(SubSeq(d, 1, Len(d) - 1)) ELSE d

\* Matrix_dimension_option::update_down(dimension): one column less of that
\* dimension, trailing empty dimensions dropped. A dimension never counted is an
\* access past the end of the counters. The counters are unsigned: they are kept
\* in two's complement, so that -1 stands for the wrapped value 2^32 - 1.
update_down(m, dimension) ==
    IF dimension < 0 \/ dimension >= Len(m.dimensions_) THEN [m EXCEPT !.ub = TRUE]
    ELSE LET counted == PopZeros([m.dimensions_ EXCEPT
                            ![dimension + 1] = @ - 1])
         IN [m EXCEPT !.dimensions_ = counted, !.maxDim_ = Len(counted) - 1]

\* Base_swap_option::_orderRows(): every column relabels its cells through
\* rowToIndex_, then both dictionaries are the identity over the row indices.
RECURSIVE ReorderColumns(_, _)
ReorderColumns(m, todo) ==
    IF todo = {} THEN m
    ELSE LET c == Min(todo)
             st == reorder(m.opts.has_row_access, m.matrix_[c].column_, m.rowToIndex_,
                           m.rows_, c)
         IN ReorderColumns([m EXCEPT !.matrix_[c].column_ = st.column, !.rows_ = st.rows],
                           todo \ {c})

orderRows_keeping_dictionaries(m) ==
    [ReorderColumns(m, DOMAIN m.matrix_) EXCEPT !.rowSwapped_ = FALSE]

orderRows(m) ==
    [ReorderColumns(m, DOMAIN m.matrix_) EXCEPT
        !.indexToRow_ = Identity(DOMAIN m.indexToRow_),
        !.rowToIndex_ = Identity(DOMAIN m.indexToRow_),
        !.rowSwapped_ = FALSE]

\* Base_swap_option::swap_rows(rowIndex1, rowIndex2): the transposition is recorded
\* in the dictionaries, no cell is touched.
swap_rows(m, rowIndex1, rowIndex2) ==
    LET id1 == m.indexToRow_[rowIndex1]
        id2 == m.indexToRow_[rowIndex2]
    IN [m EXCEPT !.rowSwapped_ = TRUE,
                 !.rowToIndex_ = [@ EXCEPT ![id1] = m.rowToIndex_[id2],
                                           ![id2] = m.rowToIndex_[id1]],
                 !.indexToRow_ = [@ EXCEPT ![rowIndex1] = id2, ![rowIndex2] = id1]]

materialize_never(m) == m

\* if (swap_opt::rowSwapped_) swap_opt::_orderRows();
materialize(m) ==
    IF m.opts.activeSwapOption /\ m.rowSwapped_ THEN orderRows(m) ELSE m

\* Matrix_row_access_option::erase_row(rowID): an existing empty row is removed.
ra_erase_row(rows, rowID) ==
    IF rowID \in DOMAIN rows /\ rows[rowID] = {} THEN Drop(rows, rowID) ELSE rows

\* Boundary_matrix::erase_row(rowIndex)
erase_row(m, rowIndex) ==
    LET viaMap == m.opts.activeSwapOption /\ m.opts.has_map_column_container
        found == rowIndex \in DOMAIN m.indexToRow_
        rowID == IF m.opts.activeSwapOption
                 THEN (IF found THEN m.indexToRow_[rowIndex] ELSE rowIndex)
                 ELSE rowIndex
        m1 == IF viaMap
              THEN (IF found
                    THEN [m EXCEPT !.rowToIndex_ = Drop(@, rowID),
                                   !.indexToRow_ = Drop(@, rowIndex)]
                    ELSE [m EXCEPT !.ub = TRUE])
              ELSE m
    IN IF m.opts.has_row_access /\ m.opts.has_removable_rows
       THEN [m1 EXCEPT !.rows_ = ra_erase_row(@, rowID)]
       ELSE m1

get_number_of_columns_by_size(m) == Size(m.matrix_)

\* Boundary_matrix::get_number_of_columns()
get_number_of_columns(m) ==
    IF m.opts.has_map_column_container THEN Size(m.matrix_) ELSE m.nextInsertIndex_

\* Boundary_matrix::get_column_dimension(columnIndex)
get_column_dimension(m, columnIndex) == m.matrix_[columnIndex].dim_

\* The dimension handed to update_up by insert_boundary.
InsertedDimension(boundary, dim) == IF Len(boundary) = 0 THEN 0 ELSE Len(boundary) - 1

pre_increment(n) == [value |-> n + 1, next |-> n + 1]

\* return nextInsertIndex_++;
post_increment(n) == [value |-> n, next |-> n + 1]

\* Boundary_matrix::insert_boundary(faceIndex, boundary, dim). garbage is the value
\* read by *std::prev(boundary.end()) when the boundary is empty.
insert_boundary(m, faceIndex, boundary, dimArg, garbage) ==
    LET o == m.opts
        dim == IF dimArg = -1 THEN (IF Len(boundary) = 0 THEN 0 ELSE Len(boundary) - 1)
               ELSE dimArg
        m1 == materialize(m)
        n == m1.nextInsertIndex_
        pivot == IF Len(boundary) = 0 THEN garbage ELSE boundary[Len(boundary)]
        m2 == IF o.has_row_access /\ ~o.has_removable_rows
              THEN [m1 EXCEPT !.rows_ = IF Size(@) <= pivot THEN Resize(@, pivot + 1) ELSE @,
                              !.ub = @ \/ Len(boundary) = 0]
              ELSE m1
        m3 == IF ~o.activeSwapOption THEN m2
              ELSE IF o.has_map_column_container
              THEN [m2 EXCEPT
                      !.indexToRow_ = IF faceIndex \in DOMAIN @ THEN @
                                      ELSE Put(@, faceIndex, faceIndex),
                      !.rowToIndex_ = IF faceIndex \in DOMAIN @ THEN @
                                      ELSE Put(@, faceIndex, faceIndex)]
              ELSE [m2 EXCEPT
                      !.indexToRow_ = @ @@ Identity(Size(@) .. faceIndex),
                      !.rowToIndex_ = @ @@ Identity(Size(@) .. faceIndex)]
        st == Z2_vector_column(o.has_row_access, boundary, m3.rows_, n)
        column == [dim_ |-> ConstructDim(boundary, dim), column_ |-> st.column]
        m4 == [m3 EXCEPT !.matrix_ = Put(@, n, column), !.rows_ = st.rows]
        m5 == update_up(m4, InsertedDimension(boundary, dim))
    IN [m |-> [m5 EXCEPT !.nextInsertIndex_ = post_increment(n).next],
        ret |-> post_increment(n).value]

remove_last_unguarded(m) ==
    [m |-> [m EXCEPT !.nextInsertIndex_ = @ - 1], ret |-> None]

remove_last_first_pivot(m) ==
    IF m.nextInsertIndex_ = 0 THEN [m |-> m, ret |-> None]
    ELSE
    LET o == m.opts
        n == m.nextInsertIndex_ - 1
        m1 == update_down([m EXCEPT !.nextInsertIndex_ = n], m.matrix_[n].dim_)
        first == get_pivot(m1.matrix_[n].column_)
        m2 == IF o.activeSwapOption /\ m1.rowSwapped_ /\ first # None
              THEN orderRows(m1) ELSE m1
        freed == DeleteAll(o.has_row_access, m2.matrix_[n].column_, 1, m2.rows_, n)
        m3 == IF o.has_map_column_container \/ o.has_row_access
              THEN [m2 EXCEPT !.matrix_ = Drop(@, n), !.rows_ = freed]
              ELSE [m2 EXCEPT !.matrix_[n].column_ =
                                  clear(FALSE, m2.matrix_[n].column_, m2.rows_, n).column]
    IN [m |-> erase_row(m3, n), ret |-> first]

\* Boundary_matrix::remove_last()
remove_last(m) ==
    IF m.nextInsertIndex_ = 0 THEN [m |-> m, ret |-> None]
    ELSE
    LET o == m.opts
        n == m.nextInsertIndex_ - 1
        m1 == update_down([m EXCEPT !.nextInsertIndex_ = n], m.matrix_[n].dim_)
        first == get_pivot(m1.matrix_[n].column_)
        m2 == IF o.activeSwapOption /\ m1.rowSwapped_ /\ first # None
              THEN orderRows(m1) ELSE m1
        pivot == get_pivot(m2.matrix_[n].column_)
        freed == DeleteAll(o.has_row_access, m2.matrix_[n].column_, 1, m2.rows_, n)
        m3 == IF o.has_map_column_container \/ o.has_row_access
              THEN [m2 EXCEPT !.matrix_ = Drop(@, n), !.rows_ = freed]
              ELSE [m2 EXCEPT !.matrix_[n].column_ =
                                  clear(FALSE, m2.matrix_[n].column_, m2.rows_, n).column]
    IN [m |-> erase_row(m3, n), ret |-> pivot]

add_to_into_source(m, sourceColumnIndex, targetColumnIndex) ==
    LET st == plus_eq(m.opts.has_row_access, m.matrix_[sourceColumnIndex].column_,
                      m.matrix_[targetColumnIndex].column_, m.rows_, sourceColumnIndex)
    IN [m EXCEPT !.matrix_[sourceColumnIndex].column_ = st.column, !.rows_ = st.rows]

\* Boundary_matrix::add_to(sourceColumnIndex, targetColumnIndex)
add_to(m, sourceColumnIndex, targetColumnIndex) ==
    LET st == plus_eq(m.opts.has_row_access, m.matrix_[targetColumnIndex].column_,
                      m.matrix_[sourceColumnIndex].column_, m.rows_, targetColumnIndex)
    IN [m EXCEPT !.matrix_[targetColumnIndex].column_ = st.column, !.rows_ = st.rows]

\* Boundary_matrix::multiply_source_and_add_to(coefficient, sourceColumnIndex,
\* targetColumnIndex)
multiply_source_and_add_to(m, coefficient, sourceColumnIndex, targetColumnIndex) ==
    LET st == z2_multiply_and_add_source(m.opts.has_row_access,
                      m.matrix_[targetColumnIndex].column_,
                      m.matrix_[sourceColumnIndex].column_, coefficient,
                      m.rows_, targetColumnIndex)
    IN [m EXCEPT !.matrix_[targetColumnIndex].column_ = st.column, !.rows_ = st.rows]

multiply_target_scales_source(m, sourceColumnIndex, coefficient, targetColumnIndex) ==
    multiply_source_and_add_to(m, coefficient, sourceColumnIndex, targetColumnIndex)

\* Boundary_matrix::multiply_target_and_add_to(sourceColumnIndex, coefficient,
\* targetColumnIndex)
multiply_target_and_add_to(m, sourceColumnIndex, coefficient, targetColumnIndex) ==
    LET st == z2_multiply_and_add_target(m.opts.has_row_access,
                      m.matrix_[targetColumnIndex].column_, coefficient,
                      m.matrix_[sourceColumnIndex].column_,
                      m.rows_, targetColumnIndex)
    IN [m EXCEPT !.matrix_[targetColumnIndex].column_ = st.column, !.rows_ = st.rows]

\* matrix_.clear(): every column is destroyed, its cells leave their rows.
RECURSIVE DestroyColumns(_, _, _)
DestroyColumns(ra, columns, rows) ==
    IF DOMAIN columns = {} THEN rows
    ELSE LET c == Max(DOMAIN columns)
         IN DestroyColumns(ra, Drop(columns, c),
                           DeleteAll(ra, columns[c].column_, 1, rows, c))

\* Boundary_matrix::reset(colSettings)
reset(m) ==
    [m EXCEPT !.matrix_ = EmptyFun,
              !.rows_ = DestroyColumns(m.opts.has_row_access, m.matrix_, @),
              !.nextInsertIndex_ = 0]

\* Boundary_matrix::get_pivot(columnIndex)
matrix_get_pivot(m, columnIndex) ==
    LET m1 == materialize(m)
    IN [m |-> m1, ret |-> get_pivot(m1.matrix_[columnIndex].column_)]

\* Boundary_matrix::get_column(columnIndex)
matrix_get_column(m, columnIndex) ==
    LET m1 == materialize(m)
    IN [m |-> m1, ret |-> m1.matrix_[columnIndex].column_]

\* Boundary_matrix::get_row(rowIndex)
matrix_get_row(m, rowIndex) ==
    LET m1 == materialize(m)
    IN [m |-> m1, ret |-> IF rowIndex \in DOMAIN m1.rows_ THEN m1.rows_[rowIndex] ELSE {}]

is_zero_cell_untranslated(m, columnIndex, rowIndex) ==
    ~is_non_zero(m.matrix_[columnIndex].column_, rowIndex)

\* Boundary_matrix::is_zero_cell(columnIndex, rowIndex)
is_zero_cell(m, columnIndex, rowIndex) ==
    IF m.opts.activeSwapOption
    THEN ~is_non_zero(m.matrix_[columnIndex].column_, m.indexToRow_[rowIndex])
    ELSE ~is_non_zero(m.matrix_[columnIndex].column_, rowIndex)

\* Boundary_matrix::is_zero_column(columnIndex)
is_zero_column(m, columnIndex) == is_empty(m.matrix_[columnIndex].column_)

\* ------------------------------------------------------- matrix system
\* Option lists the matrix is instantiated with.
Opt(map, ra, rr, swap, n) ==
    [has_map_column_container |-> map, has_row_access |-> ra, has_removable_rows |-> rr,
     activeSwapOption |-> swap, numberOfColumns |-> n]

Configs == {Opt(FALSE, FALSE, FALSE, FALSE, 0), Opt(FALSE, FALSE, FALSE, FALSE, Reserved),
            Opt(TRUE, FALSE, FALSE, FALSE, Reserved),
            Opt(FALSE, FALSE, FALSE, TRUE, 0),
            Opt(FALSE, TRUE, FALSE, TRUE, 0), Opt(TRUE, TRUE, TRUE, TRUE, 0)}

SwapConfigs == {o \in Configs : o.activeSwapOption}

\* Option lists with swaps whose insert_boundary never reads the last element of
\* an empty boundary.
ReadConfigs == {o \in SwapConfigs : o.has_row_access => o.has_removable_rows}

DefaultColumn == [dim_ |-> 0, column_ |-> <<>>]

\* Boundary_matrix(colSettings) and Boundary_matrix(numberOfColumns, colSettings)
Constructed(o) ==
    /\ opts = o
    /\ matrix_ = IF ~o.has_map_column_container /\ ~o.has_row_access
                 THEN [i \in 0 .. (o.numberOfColumns - 1) |-> DefaultColumn]
                 ELSE EmptyFun
    /\ nextInsertIndex_ = 0
    /\ rows_ = EmptyFun
    /\ dimensions_ = <<>> /\ maxDim_ = -1
    /\ rowSwapped_ = FALSE /\ indexToRow_ = EmptyFun /\ rowToIndex_ = EmptyFun
    /\ ChainIdle
    /\ live = 0 /\ ub = FALSE /\ other = NoMatrix
    /\ last = NoLast

Init == \E o \in ReadConfigs : Constructed(o)

InitCalls == \E o \in Configs : Constructed(o)

InitSwap == \E o \in ReadConfigs : Constructed(o)

Apply(m) ==
    /\ opts' = m.opts
    /\ matrix_' = m.matrix_
    /\ rows_' = m.rows_
    /\ nextInsertIndex_' = m.nextInsertIndex_
    /\ dimensions_' = m.dimensions_
    /\ maxDim_' = m.maxDim_
    /\ rowSwapped_' = m.rowSwapped_
    /\ indexToRow_' = m.indexToRow_
    /\ rowToIndex_' = m.rowToIndex_
    /\ ub' = m.ub
    /\ UNCHANGED other
    /\ UNCHANGED <<chains, pivotToColumnIndex_>>
    /\ FieldUnchanged
    /\ CubicalUnchanged

NonEmptyRows(m) == {r \in DOMAIN m.rows_ : m.rows_[r] # {}}

\* What the caller observes of the column count, the dimension tracking and the
\* emptiness of the rows.
Obs(m) == [n |-> get_number_of_columns(m), dimensions |-> m.dimensions_,
           maxDim |-> m.maxDim_, nonEmptyRows |-> NonEmptyRows(m)]

\* Boundaries are given in increasing order over the faces inserted so far.
Boundaries == {SetToSeq(b) : b \in SUBSET (0 .. (nextInsertIndex_ - 1))}

DimArgs == {-1} \cup (0 .. MaxDim)

\* Values *std::prev(boundary.end()) can read for an empty boundary.
Garbage(b) ==
    IF opts.has_row_access /\ ~opts.has_removable_rows /\ b = <<>>
    THEN 0 .. (MaxColumns - 1) ELSE {0}

\* The dimension counters are followed while they stay within 0 .. MaxColumns.
CountersInRange ==
    \A i \in 1..Len(dimensions_) : dimensions_[i] >= 0 /\ dimensions_[i] <= MaxColumns

\* insert_boundary(boundary, dim): the face index is the next MatIdx.
InsertBoundary(b, dimArg) ==
    /\ nextInsertIndex_ < MaxColumns
    /\ CountersInRange
    /\ \E g \in Garbage(b) :
          \E res \in {insert_boundary(Self, nextInsertIndex_, b, dimArg, g)} :
             /\ Apply(res.m)
             /\ live' = live + 1
             /\ last' = [NoLast EXCEPT !.op = "insert_boundary", !.ret = res.ret,
                            !.pre = b, !.dim = dimArg, !.pending = rowSwapped_,
                            !.obs = Obs(Self)]

\* What get_pivot(last column) returns when called in place of remove_last().
LastPivot ==
    IF nextInsertIndex_ = 0 THEN None
    ELSE matrix_get_pivot(Self, nextInsertIndex_ - 1).ret

\* The row of the last face holds no cell (the caller removes maximal faces only).
LastRowEmpty ==
    nextInsertIndex_ > 0 =>
        LET n == nextInsertIndex_ - 1
            rowID == IF opts.activeSwapOption THEN indexToRow_[n] ELSE n
        IN \A c \in DOMAIN matrix_ : ~is_non_zero(Cells(c), rowID)

RemoveLast ==
    /\ LastRowEmpty
    /\ CountersInRange
    /\ \E res \in {remove_last(Self)}, after \in {last.op = "insert_boundary"} :
          /\ Apply(res.m)
          /\ live' = IF nextInsertIndex_ = 0 THEN live ELSE live - 1
          /\ last' = [NoLast EXCEPT !.op = "remove_last", !.t = nextInsertIndex_,
                         !.ret = res.ret, !.pending = rowSwapped_,
                         !.ref = LastPivot,
                         !.stale = (nextInsertIndex_ > 0 /\
                                    get_pivot(Cells(nextInsertIndex_ - 1)) # res.ret),
                         !.afterInsert = after,
                         !.obs2 = IF after THEN last.obs ELSE NoObs]

\* Insertions with any dimension argument, and removals.
Next ==
    \/ \E b \in Boundaries, d \in DimArgs : InsertBoundary(b, d)
    \/ RemoveLast

Spec == Init /\ [][Next]_vars

\* C1: insert_boundary(b, dim) immediately followed by remove_last() restores the
\* column count, the dimension tracking and the emptiness of every row.
InsertThenRemoveRestores ==
    (last.op = "remove_last" /\ last.afterInsert) => Obs(Self) = last.obs2

\* The dimension insert_boundary(b, dim) is to give the new column.
GivenDimension(b, dimArg) ==
    IF dimArg # -1 THEN dimArg ELSE IF Len(b) = 0 THEN 0 ELSE Len(b) - 1

\* C13: insert_boundary(b, dim) gives the new column the dimension dim when given,
\* else 0 for an empty boundary and |b|-1 otherwise; get_column_dimension of the
\* returned index reports it and the dimension tracking counts that dimension.
InsertSetsDimension ==
    last.op = "insert_boundary" =>
        \E d \in {GivenDimension(last.pre, last.dim)} :
            \E tracked \in {update_up([dimensions_ |-> last.obs.dimensions,
                                       maxDim_ |-> last.obs.maxDim], d)} :
                /\ get_column_dimension(Self, last.ret) = d
                /\ dimensions_ = tracked.dimensions_
                /\ maxDim_ = tracked.maxDim_

\* ------------------------------------------------ calls on a matrix with swaps
\* Rows the caller may name: known to the swap dictionaries and, when the row
\* container is a vector, present in it.
SwappableRows ==
    {r \in DOMAIN indexToRow_ :
        (opts.has_row_access /\ ~opts.has_removable_rows) => r \in DOMAIN rows_}

LiveColumns == 0 .. (nextInsertIndex_ - 1)

\* The matrix as it reads once the recorded permutation is applied to the cells.
LogicalColumn(m, c) ==
    SortCells([i \in 1..Len(m.matrix_[c].column_) |->
                  MapGet(m.rowToIndex_, m.matrix_[c].column_[i])])

LogicalPivot(m, c) ==
    IF LogicalColumn(m, c) = <<>> THEN None ELSE Max(Range(LogicalColumn(m, c)))

LogicalRow(m, r) ==
    {c \in 0 .. (m.nextInsertIndex_ - 1) : r \in Range(LogicalColumn(m, c))}

\* The matrix the same run of swap requests gives when _orderRows() is called
\* after every single one of them: the run starts at the current matrix.
EagerBase ==
    IF last.op = "swap_rows"
    THEN [Self EXCEPT !.matrix_ = last.eager.matrix_, !.rows_ = last.eager.rows_,
                      !.indexToRow_ = Identity(DOMAIN indexToRow_),
                      !.rowToIndex_ = Identity(DOMAIN indexToRow_),
                      !.rowSwapped_ = FALSE]
    ELSE Self

\* swap_rows(rowIndex1, rowIndex2). Ghost: rep tells a run of at least two swap
\* requests, eager is the matrix of the run materialized after each request.
SwapRows(rowIndex1, rowIndex2) ==
    /\ opts.activeSwapOption
    /\ rowIndex1 \in SwappableRows /\ rowIndex2 \in SwappableRows
    /\ rowIndex1 < rowIndex2
    /\ \E m \in {swap_rows(Self, rowIndex1, rowIndex2)} : Apply(m)
    /\ \E e \in {orderRows(swap_rows(EagerBase, rowIndex1, rowIndex2))} :
          last' = [NoLast EXCEPT !.op = "swap_rows", !.rep = (last.op = "swap_rows"),
                         !.eager = [matrix_ |-> e.matrix_, rows_ |-> e.rows_]]
    /\ UNCHANGED live

\* Reads record the value returned (ret), the value of the materialized matrix
\* (ref) and whether the value differs from the one stored before the call (stale).
GetColumn(columnIndex) ==
    /\ columnIndex \in LiveColumns
    /\ \E res \in {matrix_get_column(Self, columnIndex)} :
          /\ Apply(res.m)
          /\ last' = [NoLast EXCEPT !.op = "get_column", !.ret = res.ret,
                         !.pending = rowSwapped_,
                         !.stale = Cells(columnIndex) # res.ret,
                         !.ref = LogicalColumn(Self, columnIndex)]
    /\ UNCHANGED live

GetRow(rowIndex) ==
    /\ opts.has_row_access
    /\ rowIndex \in DOMAIN rows_
    /\ \E res \in {matrix_get_row(Self, rowIndex)} :
          /\ Apply(res.m)
          /\ last' = [NoLast EXCEPT !.op = "get_row", !.ret = res.ret,
                         !.pending = rowSwapped_,
                         !.stale = rows_[rowIndex] # res.ret,
                         !.ref = LogicalRow(Self, rowIndex)]
    /\ UNCHANGED live

GetPivot(columnIndex) ==
    /\ columnIndex \in LiveColumns
    /\ \E res \in {matrix_get_pivot(Self, columnIndex)} :
          /\ Apply(res.m)
          /\ last' = [NoLast EXCEPT !.op = "get_pivot", !.ret = res.ret,
                         !.pending = rowSwapped_,
                         !.stale = get_pivot(Cells(columnIndex)) # res.ret,
                         !.ref = LogicalPivot(Self, columnIndex)]
    /\ UNCHANGED live

\* Insertions of simplices (dimension omitted), removals and row swaps, over every
\* option list.
NextCalls ==
    \/ \E b \in Boundaries : InsertBoundary(b, -1)
    \/ RemoveLast
    \/ \E r \in 0 .. (MaxColumns - 1) : SwapRows(r, r + 1)

SpecCalls == InitCalls /\ [][NextCalls]_vars

\* The same calls and the reads, on the option lists with swaps.
NextSwap ==
    \/ \E b \in Boundaries : InsertBoundary(b, -1)
    \/ RemoveLast
    \/ \E r \in 0 .. (MaxColumns - 1) : SwapRows(r, r + 1)
    \/ \E c \in 0 .. (MaxColumns - 1) : GetColumn(c)
    \/ \E r \in 0 .. (MaxColumns - 1) : GetRow(r)
    \/ \E c \in 0 .. (MaxColumns - 1) : GetPivot(c)

SpecSwap == InitSwap /\ [][NextSwap]_vars

\* ------------------------------------------------ zeroing cells and columns
zero_cell_untranslated(m, columnIndex, rowIndex) ==
    LET st == clear_row(m.opts.has_row_access, m.matrix_[columnIndex].column_,
                        rowIndex, m.rows_, columnIndex)
    IN [m EXCEPT !.matrix_[columnIndex].column_ = st.column, !.rows_ = st.rows]

\* Boundary_matrix::zero_cell(columnIndex, rowIndex)
zero_cell(m, columnIndex, rowIndex) ==
    LET row == IF m.opts.activeSwapOption THEN m.indexToRow_[rowIndex] ELSE rowIndex
        st == clear_row(m.opts.has_row_access, m.matrix_[columnIndex].column_,
                        row, m.rows_, columnIndex)
    IN [m EXCEPT !.matrix_[columnIndex].column_ = st.column, !.rows_ = st.rows]

\* Boundary_matrix::zero_column(columnIndex)
zero_column(m, columnIndex) ==
    LET st == clear(m.opts.has_row_access, m.matrix_[columnIndex].column_,
                    m.rows_, columnIndex)
    IN [m EXCEPT !.matrix_[columnIndex].column_ = st.column, !.rows_ = st.rows]

\* Option lists without and with swaps, vector and map containers.
ZeroConfigs == ReadConfigs \cup {Opt(FALSE, FALSE, FALSE, FALSE, 0)}

InitZero == \E o \in ZeroConfigs : Constructed(o)

\* Rows of the faces inserted so far.
KnownRows == IF opts.activeSwapOption THEN DOMAIN indexToRow_ ELSE LiveColumns

\* Every behaviour is a run of insertions and row swaps closed by one zeroing call.
ZeroOps == {"zero_cell", "zero_column"}

ZeroCell(columnIndex, rowIndex) ==
    /\ last.op \notin ZeroOps
    /\ columnIndex \in LiveColumns
    /\ rowIndex \in KnownRows
    /\ \E m \in {zero_cell(Self, columnIndex, rowIndex)} : Apply(m)
    /\ last' = [NoLast EXCEPT !.op = "zero_cell", !.t = columnIndex, !.s = rowIndex,
                   !.pre = Cells(columnIndex), !.pending = rowSwapped_]
    /\ UNCHANGED live

ZeroColumn(columnIndex) ==
    /\ last.op \notin ZeroOps
    /\ columnIndex \in LiveColumns
    /\ \E m \in {zero_column(Self, columnIndex)} : Apply(m)
    /\ last' = [NoLast EXCEPT !.op = "zero_column", !.t = columnIndex,
                   !.pre = Cells(columnIndex), !.pending = rowSwapped_]
    /\ UNCHANGED live

\* insert_boundary(boundary) and swap_rows(rowIndex1, rowIndex2), recording the
\* call only.
InsertBoundaryCall(b) ==
    /\ last.op \notin ZeroOps
    /\ nextInsertIndex_ < MaxColumns
    /\ \E res \in {insert_boundary(Self, nextInsertIndex_, b, -1, 0)} : Apply(res.m)
    /\ last' = [NoLast EXCEPT !.op = "insert_boundary"]
    /\ live' = live + 1

SwapRowsCall(rowIndex1, rowIndex2) ==
    /\ last.op \notin ZeroOps
    /\ opts.activeSwapOption
    /\ rowIndex1 \in SwappableRows /\ rowIndex2 \in SwappableRows
    /\ \E m \in {swap_rows(Self, rowIndex1, rowIndex2)} : Apply(m)
    /\ last' = [NoLast EXCEPT !.op = "swap_rows"]
    /\ UNCHANGED live

NextZero ==
    \/ \E b \in Boundaries : InsertBoundaryCall(b)
    \/ \E r \in 0 .. (MaxColumns - 1) : SwapRowsCall(r, r + 1)
    \/ \E c \in 0 .. (MaxColumns - 1), r \in 0 .. (MaxColumns - 1) : ZeroCell(c, r)
    \/ \E c \in 0 .. (MaxColumns - 1) : ZeroColumn(c)

SpecZero == InitZero /\ [][NextZero]_vars

\* The physical row of the row index r of the caller.
RowOfIndex(m, r) == IF m.opts.activeSwapOption THEN m.indexToRow_[r] ELSE r

\* Column c as a sequence of row indices of the caller.
IndexedColumn(m, c) ==
    IF m.opts.activeSwapOption THEN LogicalColumn(m, c) ELSE m.matrix_[c].column_

Without(column, rowIndex) == SelectSeq(column, LAMBDA x : x # rowIndex)

\* What a zeroing call on column c leaves as it was: the other columns, the
\* dimension of c, the cursor, the dimension tracking, the swap state and the
\* links of the other columns.
OnColumnOnly(m, after, c) ==
    /\ DOMAIN after.matrix_ = DOMAIN m.matrix_
    /\ \A d \in (DOMAIN m.matrix_) \ {c} : after.matrix_[d] = m.matrix_[d]
    /\ after.matrix_[c].dim_ = m.matrix_[c].dim_
    /\ after.nextInsertIndex_ = m.nextInsertIndex_
    /\ after.dimensions_ = m.dimensions_ /\ after.maxDim_ = m.maxDim_
    /\ after.rowSwapped_ = m.rowSwapped_
    /\ after.indexToRow_ = m.indexToRow_ /\ after.rowToIndex_ = m.rowToIndex_
    /\ m.opts.has_row_access =>
          \A r \in DOMAIN m.rows_ :
              (IF r \in DOMAIN after.rows_ THEN after.rows_[r] ELSE {}) \ {c} = m.rows_[r] \ {c}

\* The columns the next zeroing call is followed on: every column, and after a
\* zeroing call the column it has just touched.
ZeroedNext == IF last.op \in ZeroOps THEN {last.t} ELSE LiveColumns

\* C38: clear(row) removes exactly the cell at that row when present and is a
\* no-op otherwise, after which is_non_zero(row) is false; clear() leaves the
\* column empty with no pivot and its dimension unchanged; zero_cell(c, r) and
\* zero_column(c) have these effects on column c only, zero_cell addressing the
\* logical row r also while a row permutation is pending.
ZeroingClearsOneColumn ==
    \A c \in ZeroedNext :
        /\ \A r \in 0 .. (MaxColumns - 1) :
              \E st \in {clear_row(opts.has_row_access, Cells(c), r, rows_, c)} :
                 /\ st.column = Without(Cells(c), r)
                 /\ ~is_non_zero(st.column, r)
                 /\ ~is_non_zero(Cells(c), r) => (st.column = Cells(c) /\ st.rows = rows_)
        /\ \E all \in {clear(opts.has_row_access, Cells(c), rows_, c)} :
              is_empty(all.column) /\ get_pivot(all.column) = None
        /\ \A r \in KnownRows :
              \E after \in {zero_cell(Self, c, r)} :
                 /\ OnColumnOnly(Self, after, c)
                 /\ after.matrix_[c].column_ = Without(Cells(c), RowOfIndex(Self, r))
                 /\ IndexedColumn(after, c) = Without(IndexedColumn(Self, c), r)
                 /\ is_zero_cell(after, c, r)
        /\ \E after \in {zero_column(Self, c)} :
              /\ OnColumnOnly(Self, after, c)
              /\ is_zero_column(after, c)
              /\ matrix_get_pivot(after, c).ret = None
              /\ get_column_dimension(after, c) = get_column_dimension(Self, c)

ZeroingClearsOneColumnWitness ==
    /\ last.op = "zero_cell"
    /\ last.pending /\ rowSwapped_
    /\ indexToRow_[last.s] # last.s
    /\ is_non_zero(Cells(last.t), last.s)
    /\ Len(last.pre) = Len(Cells(last.t)) + 1
    /\ \E d \in LiveColumns : d # last.t /\ is_non_zero(Cells(d), indexToRow_[last.s])

\* ------------------------------------------------ copies of a matrix
\* The loop of the copy constructor and of operator=: every column of the source
\* is copied with its dimension and linked in the rows of the new matrix.
RECURSIVE CopyColumns(_, _, _, _, _)
CopyColumns(ra, source, ids, matrix, rows) ==
    IF ids = <<>> THEN [matrix_ |-> matrix, rows_ |-> rows]
    ELSE LET c == Head(ids)
             st == Z2_vector_column(ra, source[c].column_, rows, c)
         IN CopyColumns(ra, source, Tail(ids),
                        Put(matrix, c, [dim_ |-> source[c].dim_, column_ |-> st.column]),
                        st.rows)

\* matrix_.clear(): every column is destroyed, its cells leave their rows.
RECURSIVE ClearColumns(_, _, _, _)
ClearColumns(ra, matrix, ids, rows) ==
    IF ids = <<>> THEN rows
    ELSE ClearColumns(ra, matrix, Tail(ids),
                      DeleteAll(ra, matrix[Head(ids)].column_, 1, rows, Head(ids)))

\* Boundary_matrix(matrixToCopy, colSettings)
Boundary_matrix_copy(matrixToCopy) ==
    LET st == CopyColumns(matrixToCopy.opts.has_row_access, matrixToCopy.matrix_,
                          SetToSeq(DOMAIN matrixToCopy.matrix_), EmptyFun, EmptyFun)
    IN [opts |-> matrixToCopy.opts, matrix_ |-> st.matrix_, rows_ |-> st.rows_,
        nextInsertIndex_ |-> matrixToCopy.nextInsertIndex_,
        dimensions_ |-> matrixToCopy.dimensions_, maxDim_ |-> matrixToCopy.maxDim_,
        rowSwapped_ |-> matrixToCopy.rowSwapped_,
        indexToRow_ |-> matrixToCopy.indexToRow_, rowToIndex_ |-> matrixToCopy.rowToIndex_,
        ub |-> FALSE]

\* Boundary_matrix::operator=(other) on the matrix m; aliased tells that other is
\* m itself, so that other.matrix_ is read after matrix_.clear() emptied it.
operator_assign(m, source, aliased) ==
    LET cleared == ClearColumns(m.opts.has_row_access, m.matrix_,
                                SetToSeq(DOMAIN m.matrix_), m.rows_)
        from == IF aliased THEN EmptyFun ELSE source.matrix_
        st == CopyColumns(m.opts.has_row_access, from, SetToSeq(DOMAIN from),
                          EmptyFun, cleared)
    IN [opts |-> m.opts, matrix_ |-> st.matrix_, rows_ |-> st.rows_,
        nextInsertIndex_ |-> source.nextInsertIndex_,
        dimensions_ |-> source.dimensions_, maxDim_ |-> source.maxDim_,
        rowSwapped_ |-> source.rowSwapped_,
        indexToRow_ |-> source.indexToRow_, rowToIndex_ |-> source.rowToIndex_,
        ub |-> m.ub]

\* Option lists of the copied matrices: vector and map containers, without and
\* with removable rows.
CopyConfigs == {Opt(FALSE, FALSE, FALSE, FALSE, 0), Opt(FALSE, FALSE, FALSE, FALSE, Reserved),
                Opt(TRUE, TRUE, TRUE, TRUE, 0)}

InitCopy == \E o \in CopyConfigs : Constructed(o)

ThisUnchanged ==
    /\ UNCHANGED <<opts, matrix_, rows_, nextInsertIndex_, dimensions_, maxDim_,
                   rowSwapped_, indexToRow_, rowToIndex_, chains, pivotToColumnIndex_,
                   live, ub>>
    /\ FieldUnchanged
    /\ CubicalUnchanged

\* Boundary_matrix other(colSettings) / other(numberOfColumns, colSettings)
ConstructOther ==
    /\ other = NoMatrix
    /\ other' = [NoMatrix EXCEPT !.opts = opts, !.matrix_ = matrix_, !.nextInsertIndex_ = 0]
    /\ nextInsertIndex_ = 0
    /\ last' = [NoLast EXCEPT !.op = "construct_other"]
    /\ ThisUnchanged

\* other.insert_boundary(boundary)
InsertOther(b) ==
    /\ other # NoMatrix
    /\ other.nextInsertIndex_ < MaxColumns
    /\ Range(b) \subseteq 0 .. (other.nextInsertIndex_ - 1)
    /\ \E res \in {insert_boundary(other, other.nextInsertIndex_, b, -1, 0)} :
          other' = res.m
    /\ last' = [NoLast EXCEPT !.op = "insert_other"]
    /\ ThisUnchanged

\* The matrix is replaced by Boundary_matrix(other).
CopyConstruct ==
    /\ other # NoMatrix
    /\ Apply(Boundary_matrix_copy(other))
    /\ last' = [NoLast EXCEPT !.op = "copy_construct"]
    /\ live' = other.nextInsertIndex_

\* *this = other
Assign ==
    /\ other # NoMatrix
    /\ Apply(operator_assign(Self, other, FALSE))
    /\ last' = [NoLast EXCEPT !.op = "operator="]
    /\ live' = other.nextInsertIndex_

\* *this = *this
AssignSelf ==
    /\ Apply(operator_assign(Self, Self, TRUE))
    /\ last' = [NoLast EXCEPT !.op = "operator= self"]
    /\ UNCHANGED live

NextCopy ==
    \/ ConstructOther
    \/ \E b \in Boundaries : InsertBoundaryCall(b)
    \/ \E b \in {SetToSeq(x) : x \in SUBSET (0 .. (MaxColumns - 2))} : InsertOther(b)
    \/ CopyConstruct
    \/ Assign
    \/ AssignSelf

SpecCopy == InitCopy /\ [][NextCopy]_vars

\* The matrix a has the columns, the cells and dimension of each column and the
\* insertion cursor of b.
SameMatrix(a, b) ==
    /\ get_number_of_columns(a) = get_number_of_columns(b)
    /\ a.nextInsertIndex_ = b.nextInsertIndex_
    /\ \A c \in 0 .. (b.nextInsertIndex_ - 1) :
          /\ c \in DOMAIN a.matrix_
          /\ a.matrix_[c] = b.matrix_[c]

\* C39: copy construction and copy assignment give a matrix with the number of
\* columns, the cells and dimension of each column and the insertion cursor of
\* the source and leave the source unchanged; a later mutation of one matrix
\* changes no cell or row of the other; assigning a matrix to itself leaves it
\* unchanged.
CopyIsEqualAndIndependent ==
    [][/\ last'.op \in {"copy_construct", "operator="} =>
             SameMatrix(Self', other) /\ other' = other
       /\ last'.op = "insert_boundary" => other' = other
       /\ last'.op = "insert_other" =>
             matrix_' = matrix_ /\ rows_' = rows_
       /\ last'.op = "operator= self" => SameMatrix(Self', Self)]_vars

\* C7: remove_last() on a matrix without column returns -1 and leaves the insertion
\* cursor, the columns, the rows, the dimension tracking and the swap state as
\* they are.
RemoveLastOnEmpty ==
    [][(nextInsertIndex_ = 0 /\ last'.op = "remove_last") =>
          /\ last'.ret = None
          /\ UNCHANGED <<opts, matrix_, rows_, nextInsertIndex_, dimensions_, maxDim_,
                         rowSwapped_, indexToRow_, rowToIndex_, live, ub>>]_vars

RemoveLastOnEmptyWitness ==
    /\ last.op = "remove_last" /\ last.t = 0 /\ last.ret = None
    /\ nextInsertIndex_ = 0
    /\ rowSwapped_

\* C8: get_number_of_columns() is the number of insertions minus the number of
\* successful removals, whatever the column container and the constructor.
ColumnCountIsLive == get_number_of_columns(Self) = live

ColumnCountIsLiveWitness ==
    /\ ~opts.has_map_column_container /\ opts.numberOfColumns = Reserved
    /\ last.op = "remove_last" /\ last.t > 0
    /\ live > 0
    /\ Size(matrix_) > live

ReadOps == {"get_column", "get_row", "get_pivot"}

\* C9: get_column, get_row and get_pivot called with a pending permutation return
\* the value of the materialized matrix and leave the swap state canonical.
ReadsMaterialize ==
    (last.op \in ReadOps /\ last.pending) =>
        /\ last.ret = last.ref
        /\ ~rowSwapped_
        /\ indexToRow_ = Identity(DOMAIN indexToRow_)
        /\ rowToIndex_ = Identity(DOMAIN rowToIndex_)

ReadsMaterializeWitness ==
    /\ last.op = "get_pivot" /\ last.pending
    /\ last.stale
    /\ last.ret # None

\* C25: _orderRows() on a canonical swap state changes no cell, no row and no
\* dictionary entry: the state a read leaves behind is canonical, and a second
\* read of any column, pivot or row on it reorders nothing and returns the
\* content as the first read left it.
MaterializationIsIdempotent ==
    \E first \in {materialize(Self)} :
        /\ ~first.rowSwapped_
        /\ orderRows(first) = first
        /\ materialize(first) = first
        /\ \A c \in LiveColumns :
              /\ matrix_get_column(first, c) = [m |-> first, ret |-> first.matrix_[c].column_]
              /\ matrix_get_pivot(first, c) =
                    [m |-> first, ret |-> get_pivot(first.matrix_[c].column_)]
        /\ \A r \in DOMAIN rows_ : matrix_get_row(first, r) = [m |-> first, ret |-> first.rows_[r]]
        /\ last.op \in ReadOps => first = Self

\* A read on a canonical state that follows a materialized swap (a column holds
\* a row index no boundary gave it): the read reorders nothing.
MaterializationIsIdempotentWitness ==
    /\ last.op \in ReadOps /\ ~last.pending /\ ~last.stale
    /\ ~rowSwapped_
    /\ opts.has_row_access
    /\ \E c \in LiveColumns : Cells(c) # <<>> /\ get_pivot(Cells(c)) >= c

\* C10: while a permutation is pending, is_zero_cell(c, r) and is_zero_column(c)
\* answer, for every column c and row r, as they do on the matrix materialized first.
ZeroTestsHonourPending ==
    rowSwapped_ =>
        \E first \in {materialize(Self)} :
            \A c \in LiveColumns :
                /\ is_zero_column(Self, c) = is_zero_column(first, c)
                /\ \A r \in DOMAIN indexToRow_ :
                      is_zero_cell(Self, c, r) = is_zero_cell(first, c, r)

ZeroTestsHonourPendingWitness ==
    /\ rowSwapped_
    /\ \E c \in LiveColumns, r \in DOMAIN indexToRow_ :
          /\ ~is_zero_cell(Self, c, r)
          /\ ~is_non_zero(Cells(c), r)
          /\ ~is_zero_column(Self, c)

\* reset(colSettings)
Reset ==
    /\ \E m \in {reset(Self)} : Apply(m)
    /\ live' = 0
    /\ last' = [NoLast EXCEPT !.op = "reset", !.t = nextInsertIndex_]

\* Insertions of simplices, removals, row swaps and resets, over every option list.
NextReset ==
    \/ \E b \in Boundaries : InsertBoundary(b, -1)
    \/ RemoveLast
    \/ \E r \in 0 .. (MaxColumns - 1) : SwapRows(r, r + 1)
    \/ Reset

SpecReset == InitCalls /\ [][NextReset]_vars

\* insert_boundary returns the number of columns before the call and moves the
\* insertion cursor one up.
InsertReturnsCount ==
    last'.op = "insert_boundary" =>
        /\ last'.ret = get_number_of_columns(Self)
        /\ nextInsertIndex_' = nextInsertIndex_ + 1

SuccessfulRemoveLast ==
    last'.op = "remove_last" /\ nextInsertIndex_ > 0 /\ last'.t = nextInsertIndex_

EmptyBoundaryReadsNothing ==
    [][(last'.op = "insert_boundary" /\ last'.pre = <<>>) =>
          /\ ~ub'
          /\ matrix_'[last'.ret].column_ = <<>>
          /\ get_pivot(matrix_'[last'.ret].column_) = None
          /\ matrix_'[last'.ret].dim_ = 0
          /\ DOMAIN rows_' = DOMAIN rows_]_vars

\* C29: with row access and rows that are not removable, after every
\* insert_boundary the row container holds every row index of every cell, and
\* get_row(i) is a row of the container for every inserted face i.
RowContainerCoversFaces ==
    (opts.has_row_access /\ ~opts.has_removable_rows /\ last.op = "insert_boundary") =>
        /\ \A c \in LiveColumns : \A k \in 1..Len(Cells(c)) : Cells(c)[k] \in DOMAIN rows_
        /\ \A i \in 0 .. (get_number_of_columns(Self) - 1) : i \in DOMAIN rows_

\* C31: insert_boundary called while a permutation is pending materializes it
\* before the new column is created: afterwards the swap state is canonical, the
\* existing columns and rows hold what the materialized matrix holds, and the new
\* column holds the boundary as given, linked in the rows of those indices.
InsertMaterializesFirst ==
    [][(last'.op = "insert_boundary" /\ rowSwapped_) =>
          \E first \in {materialize(Self)} :
              /\ ~rowSwapped_'
              /\ indexToRow_' = Identity(DOMAIN indexToRow_')
              /\ rowToIndex_' = Identity(DOMAIN rowToIndex_')
              /\ \A c \in LiveColumns : matrix_'[c].column_ = first.matrix_[c].column_
              /\ matrix_'[last'.ret].column_ = last'.pre
              /\ opts.has_row_access =>
                    \A r \in DOMAIN rows_' :
                        rows_'[r] = (IF r \in DOMAIN first.rows_ THEN first.rows_[r] ELSE {})
                                       \cup (IF r \in Range(last'.pre) THEN {last'.ret} ELSE {})]_vars

\* An insertion with a pending permutation that moved a cell of an existing
\* column to the row the new boundary names.
InsertMaterializesFirstWitness ==
    /\ last.op = "insert_boundary" /\ last.pending
    /\ last.pre # <<>>
    /\ ~rowSwapped_
    /\ \E c \in LiveColumns :
          /\ c # last.ret
          /\ Cells(c) # <<>> /\ get_pivot(Cells(c)) >= c
          /\ get_pivot(Cells(c)) \in Range(last.pre)

\* C24: after reset the matrix has no column, the next insertion returns 0, and
\* the dimension tracking, the pending swaps and the row container are those of
\* a newly constructed empty matrix.
ResetGivesNewMatrix ==
    last.op = "reset" =>
        /\ get_number_of_columns(Self) = 0
        /\ nextInsertIndex_ = 0
        /\ dimensions_ = <<>> /\ maxDim_ = -1
        /\ rowSwapped_ = FALSE /\ indexToRow_ = EmptyFun /\ rowToIndex_ = EmptyFun
        /\ rows_ = EmptyFun

\* ------------------------------------------------ additions between columns
MaxCoefficient == 1    \* coefficients handed to multiply_*_and_add_to are 0 .. MaxCoefficient

Coefficients == 0 .. MaxCoefficient

\* Ghost of an addition: the arguments, and whether the target's cells changed.
Added(op, s, coefficient, t, m) ==
    /\ Apply(m)
    /\ last' = [NoLast EXCEPT !.op = op, !.s = s, !.t = t, !.ret = coefficient,
                   !.stale = (m.matrix_[t].column_ # Cells(t))]
    /\ UNCHANGED live

\* The additions are those of a reduction: an earlier column is added to a later one.
AddTo(s, t) ==
    /\ s \in LiveColumns /\ t \in LiveColumns /\ s < t
    /\ \E m \in {add_to(Self, s, t)} : Added("add_to", s, 1, t, m)

MultiplyTargetAndAddTo(s, coefficient, t) ==
    /\ s \in LiveColumns /\ t \in LiveColumns /\ s < t
    /\ \E m \in {multiply_target_and_add_to(Self, s, coefficient, t)} :
          Added("multiply_target_and_add_to", s, coefficient, t, m)

MultiplySourceAndAddTo(coefficient, s, t) ==
    /\ s \in LiveColumns /\ t \in LiveColumns /\ s < t
    /\ \E m \in {multiply_source_and_add_to(Self, coefficient, s, t)} :
          Added("multiply_source_and_add_to", s, coefficient, t, m)

\* Insertions of simplices, removals and additions between columns.
NextAdd ==
    \/ \E b \in Boundaries : InsertBoundary(b, -1)
    \/ RemoveLast
    \/ \E s, t \in 0 .. (MaxColumns - 1) : AddTo(s, t)
    \/ \E s, t \in 0 .. (MaxColumns - 1), c \in Coefficients : MultiplyTargetAndAddTo(s, c, t)
    \/ \E s, t \in 0 .. (MaxColumns - 1), c \in Coefficients : MultiplySourceAndAddTo(c, s, t)

\* Option lists that differ in what an addition touches: the column container and
\* the row access.
AddConfigs == {o \in Configs : o.has_row_access \/ (~o.activeSwapOption /\ o.numberOfColumns # 0)}

InitAdd == \E o \in AddConfigs : Constructed(o)

SpecAdd == InitAdd /\ [][NextAdd]_vars

Scaled(coefficient, column) == IF coefficient % 2 = 0 THEN {} ELSE Range(column)

RemoveLastReturnsPivot ==
    (last.op = "remove_last" /\ last.t > 0) => last.ret = last.ref

RemoveLastReturnsPivotWitness ==
    /\ last.op = "remove_last" /\ last.t > 0
    /\ last.pending /\ last.stale
    /\ last.ret # None /\ last.ret = last.ref

\* C11: after any run of adjacent swap requests, materializing once gives the
\* matrix obtained by materializing after every single request: same cells in
\* every column, same pivots, same rows.
LazyEqualsEager ==
    last.op = "swap_rows" =>
        \E lazy \in {materialize(Self)} :
            /\ lazy.matrix_ = last.eager.matrix_
            /\ \A r \in (DOMAIN lazy.rows_) \cup (DOMAIN last.eager.rows_) :
                  matrix_get_row(lazy, r).ret =
                      (IF r \in DOMAIN last.eager.rows_ THEN last.eager.rows_[r] ELSE {})
            /\ \A c \in LiveColumns :
                  get_pivot(lazy.matrix_[c].column_) = get_pivot(last.eager.matrix_[c].column_)

LazyEqualsEagerWitness ==
    /\ last.op = "swap_rows" /\ last.rep
    /\ \A r \in 0 .. 2 : r \in DOMAIN rowToIndex_ /\ rowToIndex_[r] # r
    /\ \E c \in LiveColumns :
          /\ Len(Cells(c)) >= 2
          /\ Cells(c) # last.eager.matrix_[c].column_
          /\ get_pivot(Cells(c)) # get_pivot(last.eager.matrix_[c].column_)

\* ------------------------------------------------------ Set_chain_column
NumChains == 2       \* chain columns are 0 .. NumChains-1
NumChainRows == 2    \* their rows are 0 .. NumChainRows-1

ChainIds == 0 .. (NumChains - 1)
ChainRows == 0 .. (NumChainRows - 1)

\* Field_element_type: the integers modulo Cardinality(Field).
Field == {0, 1}

\* Set_column: column_ gives the coefficient of every row, 0 where there is no cell.
set_is_non_zero(column, rowIndex) == rowIndex \in DOMAIN column /\ column[rowIndex] # 0

\* Set_column: the merge target * a + source * b.
set_multiply_and_add(column, a, source, b) ==
    [r \in DOMAIN column |-> (column[r] * a + source[r] * b) % Cardinality(Field)]

\* Set_chain_column(chain, dimension, pivotToColumnIndex)
Set_chain_column(chain) ==
    [column_ |-> chain,
     pivot_ |-> IF \A r \in DOMAIN chain : chain[r] = 0 THEN None
                ELSE Max({r \in DOMAIN chain : chain[r] # 0}),
     pairedColumn_ |-> None]

\* Set_chain_column::get_pivot()
chain_get_pivot(column) == column.pivot_

pivot_fixup_takes(cs, dict, t, s) ==
    IF set_is_non_zero(cs[t].column_, cs[t].pivot_) THEN [chains |-> cs, dict |-> dict, swapped |-> FALSE]
    ELSE [chains |-> [cs EXCEPT ![t].pivot_ = cs[s].pivot_], dict |-> dict, swapped |-> TRUE]

pivot_fixup_without_dictionary(cs, dict, t, s) ==
    IF set_is_non_zero(cs[t].column_, cs[t].pivot_) THEN [chains |-> cs, dict |-> dict, swapped |-> FALSE]
    ELSE [chains |-> [cs EXCEPT ![t].pivot_ = cs[s].pivot_, ![s].pivot_ = cs[t].pivot_],
          dict |-> dict, swapped |-> TRUE]

\* if (!Base::is_non_zero(pivot_)) { swap the two dictionary entries; swap the two
\* pivots }. Dictionary_type::at throws for a pivot that is no key: the call is left
\* with the cells merged and nothing swapped.
pivot_fixup(cs, dict, t, s) ==
    IF set_is_non_zero(cs[t].column_, cs[t].pivot_)
    THEN [chains |-> cs, dict |-> dict, swapped |-> FALSE]
    ELSE IF cs[t].pivot_ \notin DOMAIN dict \/ chain_get_pivot(cs[s]) \notin DOMAIN dict
    THEN [chains |-> cs, dict |-> dict, swapped |-> FALSE]
    ELSE [chains |-> [cs EXCEPT ![t].pivot_ = cs[s].pivot_, ![s].pivot_ = cs[t].pivot_],
          dict |-> [dict EXCEPT ![cs[t].pivot_] = dict[chain_get_pivot(cs[s])],
                                ![chain_get_pivot(cs[s])] = dict[cs[t].pivot_]],
          swapped |-> TRUE]

\* Set_chain_column::operator+=(column)
chain_plus_eq(cs, dict, t, s) ==
    pivot_fixup([cs EXCEPT ![t].column_ = set_multiply_and_add(@, 1, cs[s].column_, 1)],
                dict, t, s)

\* Set_chain_column::multiply_and_add(v, column): this = this * v + column
multiply_and_add_target(cs, dict, t, v, s) ==
    pivot_fixup([cs EXCEPT ![t].column_ = set_multiply_and_add(@, v, cs[s].column_, 1)],
                dict, t, s)

\* Set_chain_column::multiply_and_add(column, v): this = this + column * v
multiply_and_add_source(cs, dict, t, s, v) ==
    pivot_fixup([cs EXCEPT ![t].column_ = set_multiply_and_add(@, 1, cs[s].column_, v)],
                dict, t, s)

\* ------------------------------------------------- chain-column system
\* Chains handed to the constructors: non-zero, with pairwise distinct last rows.
Chains == {ch \in [ChainRows -> Field] : \E r \in ChainRows : ch[r] # 0}

InitChain ==
    /\ opts = NoOpts /\ matrix_ = EmptyFun /\ rows_ = EmptyFun
    /\ nextInsertIndex_ = 0 /\ dimensions_ = <<>> /\ maxDim_ = -1
    /\ rowSwapped_ = FALSE /\ indexToRow_ = EmptyFun /\ rowToIndex_ = EmptyFun
    /\ live = 0 /\ ub = FALSE /\ other = NoMatrix /\ last = NoLast
    /\ FieldIdle /\ CubicalIdle
    /\ \E given \in [ChainIds -> Chains] :
          /\ \A c1, c2 \in ChainIds :
                c1 # c2 => Set_chain_column(given[c1]).pivot_ # Set_chain_column(given[c2]).pivot_
          /\ chains = [c \in ChainIds |-> Set_chain_column(given[c])]
          /\ pivotToColumnIndex_ =
                [p \in {Set_chain_column(given[c]).pivot_ : c \in ChainIds} |->
                    CHOOSE c \in ChainIds : Set_chain_column(given[c]).pivot_ = p]

ApplyChain(res, op, t, s) ==
    /\ chains' = res.chains
    /\ pivotToColumnIndex_' = res.dict
    /\ last' = [NoLast EXCEPT !.op = op, !.t = t, !.s = s, !.stale = res.swapped]
    /\ UNCHANGED <<opts, matrix_, rows_, nextInsertIndex_, dimensions_, maxDim_,
                   rowSwapped_, indexToRow_, rowToIndex_, live, ub, other>>
    /\ FieldUnchanged
    /\ CubicalUnchanged

ChainPlusEq(t, s) ==
    /\ t # s
    /\ \E res \in {chain_plus_eq(chains, pivotToColumnIndex_, t, s)} :
          ApplyChain(res, "chain_plus_eq", t, s)

ChainMultiplyTargetAndAdd(t, v, s) ==
    /\ t # s
    /\ \E res \in {multiply_and_add_target(chains, pivotToColumnIndex_, t, v, s)} :
          ApplyChain(res, "multiply_and_add_target", t, s)

ChainMultiplySourceAndAdd(t, s, v) ==
    /\ t # s
    /\ \E res \in {multiply_and_add_source(chains, pivotToColumnIndex_, t, s, v)} :
          ApplyChain(res, "multiply_and_add_source", t, s)

NextChain ==
    \/ \E t, s \in ChainIds : ChainPlusEq(t, s)
    \/ \E t, s \in ChainIds, v \in Field : ChainMultiplyTargetAndAdd(t, v, s)
    \/ \E t, s \in ChainIds, v \in Field : ChainMultiplySourceAndAdd(t, s, v)

SpecChain == InitChain /\ [][NextChain]_vars

\* C3: no two distinct chain columns report the same get_pivot().
PivotUniqueness ==
    \A c1, c2 \in DOMAIN chains :
        c1 # c2 => chain_get_pivot(chains[c1]) # chain_get_pivot(chains[c2])

PivotUniquenessWitness ==
    /\ last.op = "multiply_and_add_target" /\ last.stale
    /\ chain_get_pivot(chains[last.t]) # Set_chain_column(chains[last.t].column_).pivot_
    /\ chain_get_pivot(chains[last.t]) # None

\* The dictionary maps the pivot of every chain column to that column.
DictionaryConsistent ==
    \A c \in DOMAIN chains :
        /\ chain_get_pivot(chains[c]) \in DOMAIN pivotToColumnIndex_
        /\ pivotToColumnIndex_[chain_get_pivot(chains[c])] = c

PivotsKept(t, s) ==
    /\ set_is_non_zero(chains'[t].column_, chain_get_pivot(chains[t]))
    /\ chain_get_pivot(chains'[t]) = chain_get_pivot(chains[t])
    /\ chain_get_pivot(chains'[s]) = chain_get_pivot(chains[s])
    /\ pivotToColumnIndex_' = pivotToColumnIndex_

PivotsExchanged(t, s) ==
    /\ chain_get_pivot(chains'[t]) = chain_get_pivot(chains[s])
    /\ chain_get_pivot(chains'[s]) = chain_get_pivot(chains[t])
    /\ pivotToColumnIndex_' =
          [pivotToColumnIndex_ EXCEPT ![chain_get_pivot(chains[t])] = s,
                                      ![chain_get_pivot(chains[s])] = t]

\* C26: from a state where the dictionary maps the pivot of every chain column to
\* that column, an addition or multiply_and_add either keeps both cached pivots
\* and the dictionary (the target is non-zero at its old pivot) or exchanges the
\* two dictionary entries and the two cached pivots; the dictionary is consistent
\* again, and no other column's pivot changes.
AdditionKeepsDictionary ==
    [][DictionaryConsistent =>
          /\ PivotsKept(last'.t, last'.s) \/ PivotsExchanged(last'.t, last'.s)
          /\ \A c \in DOMAIN chains \ {last'.t, last'.s} :
                chain_get_pivot(chains'[c]) = chain_get_pivot(chains[c])
          /\ DictionaryConsistent']_vars

AdditionKeepsDictionaryWitness ==
    /\ last.op = "chain_plus_eq" /\ last.stale
    /\ DictionaryConsistent
    /\ pivotToColumnIndex_[chain_get_pivot(chains[last.t])] = last.t
    /\ ~set_is_non_zero(chains[last.t].column_, chain_get_pivot(chains[last.s]))

\* C27: get_pivot() of every chain column is the maximum row index at which the
\* column has a non-zero cell, none for a zero column.
ChainPivotIsMaximum ==
    \A c \in DOMAIN chains :
        chain_get_pivot(chains[c]) = Set_chain_column(chains[c].column_).pivot_

\* -------------------- Shared_multi_field_element_with_small_characteristics
W == 4    \* bits of unsigned int and of int

UIntMax == 2^W - 1

\* unsigned arithmetic wraps modulo 2^W
Wrap(x) == x % (2^W)

\* conversion of an unsigned value to int, and of an int to unsigned
ToInt(u) == IF u >= 2^(W - 1) THEN u - 2^W ELSE u
ToUnsigned(k) == k % (2^W)

UInts == 0 .. UIntMax
Ints == (-(2^(W - 1))) .. (2^(W - 1) - 1)

\* _is_prime(const int p)
RECURSIVE is_prime_loop(_, _)
is_prime_loop(p, i) ==
    IF i * i > p THEN TRUE
    ELSE IF p % i = 0 \/ p % (i + 2) = 0 THEN FALSE
    ELSE is_prime_loop(p, i + 6)

is_prime(p) ==
    IF p <= 1 THEN FALSE
    ELSE IF p <= 3 THEN TRUE
    ELSE IF p % 2 = 0 \/ p % 3 = 0 THEN FALSE
    ELSE is_prime_loop(p, 5)

\* The double-and-add loop of _multiply and of operator*(unsigned, element):
\* a is consumed bit by bit, b is doubled modulo N, res accumulates.
RECURSIVE multiply_loop(_, _, _, _)
multiply_loop(N, a, b, res) ==
    IF a = 0 THEN res
    ELSE LET added == IF a % 2 = 1
                      THEN Wrap((IF b >= Wrap(N - res) THEN Wrap(res - N) ELSE res) + b)
                      ELSE res
             temp_b == IF b >= Wrap(N - b) THEN Wrap(b - N) ELSE b
         IN multiply_loop(N, a \div 2, Wrap(b + temp_b), added)

\* _multiply(a, b)
multiply(N, a, b) ==
    IF b < a THEN multiply_loop(N, b, a, 0) ELSE multiply_loop(N, a, b, 0)

add_ignoring_overflow(N, element, v) ==
    LET sum == Wrap(element + v) IN IF sum >= N THEN sum - N ELSE sum

\* _add(v) on an element holding element
add(N, element, v) ==
    IF UIntMax - element < v THEN Wrap(Wrap(element + v) - N)
    ELSE IF element + v >= N THEN element + v - N ELSE element + v

substract_without_borrow(N, element, v) == Wrap(element - v)

\* _substract(v) on an element holding element
substract(N, element, v) ==
    Wrap((IF element < v THEN Wrap(element + N) ELSE element) - v)

\* Shared_multi_field_element_with_small_characteristics(unsigned int element)
construct_unsigned(N, element) == element % N

\* Shared_multi_field_element_with_small_characteristics(int element): the int is
\* converted to unsigned for the % with the unsigned product.
construct_int(N, element) == ToUnsigned(element) % N

\* operator+(unsigned int v, element): v += f.element_; v %= product
friend_plus(N, v, element) == Wrap(v + element) % N

\* operator-(unsigned int v, element)
friend_minus(N, v, element) ==
    LET v1 == IF v >= N THEN v % N ELSE v
        v2 == IF element > v1 THEN Wrap(v1 + N) ELSE v1
    IN Wrap(v2 - element)

\* operator*(unsigned int v, element)
friend_times(N, v, element) == multiply_loop(N, v, element, 0)

\* initialize: the loop over minimum .. maximum collecting the primes and their
\* product.
RECURSIVE CollectPrimes(_, _, _)
CollectPrimes(i, maximum, acc) ==
    IF i > maximum THEN acc
    ELSE CollectPrimes(i + 1, maximum,
            IF is_prime(ToInt(i))
            THEN [primes |-> Append(acc.primes, i), product |-> Wrap(acc.product * i)]
            ELSE acc)

\* initialize: partials_[i] = base ^ exp by repeated squaring with _multiply.
RECURSIVE PartialLoop(_, _, _, _)
PartialLoop(N, exp, base, partial) ==
    IF exp = 0 THEN partial
    ELSE PartialLoop(N, exp \div 2, multiply(N, base, base),
                     IF exp % 2 = 1 THEN multiply(N, partial, base) ELSE partial)

\* The static members as a record.
Statics == [productOfAllCharacteristics_ |-> productOfAllCharacteristics_,
            primes_ |-> primes_, partials_ |-> partials_]

\* initialize(minimum, maximum) on the static members f. The outcome is "throws"
\* (invalid_argument), "returns", or "diverges": with maximum = UINT_MAX the loop
\* condition i <= maximum never fails, i wraps to 0 and primes_ grows until the
\* allocation fails; the call neither returns nor throws invalid_argument.
initialize(f, minimum, maximum) ==
    IF maximum < 2 THEN [outcome |-> "throws", f |-> f]
    ELSE IF minimum > maximum THEN [outcome |-> "throws", f |-> f]
    ELSE IF minimum = maximum /\ ~is_prime(ToInt(minimum)) THEN [outcome |-> "throws", f |-> f]
    ELSE IF maximum = UIntMax THEN [outcome |-> "diverges", f |-> f]
    ELSE LET found == CollectPrimes(minimum, maximum, [primes |-> <<>>, product |-> 1])
             N == found.product
         IN IF found.primes = <<>>
            THEN [outcome |-> "throws",
                  f |-> [f EXCEPT !.productOfAllCharacteristics_ = 1, !.primes_ = <<>>]]
            ELSE [outcome |-> "returns",
                  f |-> [productOfAllCharacteristics_ |-> N,
                         primes_ |-> found.primes,
                         partials_ |-> [i \in 1..Len(found.primes) |->
                                           PartialLoop(N, found.primes[i] - 1,
                                                       N \div found.primes[i], 1)]]]

\* ---------------------------------------------------- multi-field system
InitField ==
    /\ opts = NoOpts /\ matrix_ = EmptyFun /\ rows_ = EmptyFun
    /\ MatrixIdle
    /\ last = NoLast

FieldMatrixUnchanged ==
    UNCHANGED <<opts, matrix_, rows_, nextInsertIndex_, dimensions_, maxDim_,
                rowSwapped_, indexToRow_, rowToIndex_, chains, pivotToColumnIndex_,
                ba, all_cells_it, elems_in_boundary, live, ub, other>>

\* A successful initialize has taken place.
FieldReady == primes_ # <<>> /\ last.outcome # "diverges"

\* initialize(minimum, maximum), called until it succeeds; elements are
\* constructed afterwards.
Initialize(minimum, maximum) ==
    /\ primes_ = <<>> /\ last.outcome # "diverges"
    /\ \E res \in {initialize(Statics, minimum, maximum)} :
          /\ productOfAllCharacteristics_' = res.f.productOfAllCharacteristics_
          /\ primes_' = res.f.primes_
          /\ partials_' = res.f.partials_
          /\ last' = [NoLast EXCEPT !.op = "initialize", !.t = minimum, !.s = maximum,
                         !.outcome = res.outcome]
    /\ UNCHANGED element_
    /\ FieldMatrixUnchanged

\* An operation on the element: t is its value before, s the operand.
ElementOp(op, operand, value) ==
    /\ FieldReady
    /\ element_' = value
    /\ last' = [NoLast EXCEPT !.op = op, !.t = element_, !.s = operand, !.ret = value]
    /\ UNCHANGED <<productOfAllCharacteristics_, primes_, partials_>>
    /\ FieldMatrixUnchanged

\* A friend operator on the element: s is the unsigned operand, ret the result.
FriendOp(op, operand, value) ==
    /\ FieldReady
    /\ last' = [NoLast EXCEPT !.op = op, !.t = element_, !.s = operand, !.ret = value]
    /\ FieldUnchanged
    /\ FieldMatrixUnchanged

\* The elements an operand can be.
Elements == 0 .. (productOfAllCharacteristics_ - 1)

\* initialize on every interval of unsigned values.
NextInitialize == \E minimum, maximum \in UInts : Initialize(minimum, maximum)

SpecInitialize == InitField /\ [][NextInitialize]_vars

\* The largest characteristic the elements are computed with.
MaxCharacteristic == 5

NextField ==
    \/ \E minimum, maximum \in 0 .. MaxCharacteristic : Initialize(minimum, maximum)
    \/ \E v \in UInts :
          ElementOp("construct_unsigned", v, construct_unsigned(productOfAllCharacteristics_, v))
    \/ \E k \in Ints :
          ElementOp("construct_int", k, construct_int(productOfAllCharacteristics_, k))
    \/ \E f \in Elements :
          ElementOp("plus_eq", f, add(productOfAllCharacteristics_, element_, f))
    \/ \E v \in UInts :
          ElementOp("plus_eq_raw", v, add(productOfAllCharacteristics_, element_,
                                          v % productOfAllCharacteristics_))
    \/ \E f \in Elements :
          ElementOp("minus_eq", f, substract(productOfAllCharacteristics_, element_, f))
    \/ \E v \in UInts :
          ElementOp("minus_eq_raw", v, substract(productOfAllCharacteristics_, element_,
                                                 v % productOfAllCharacteristics_))
    \/ \E f \in Elements :
          ElementOp("times_eq", f, multiply(productOfAllCharacteristics_, element_, f))
    \/ \E v \in UInts :
          ElementOp("times_eq_raw", v, multiply(productOfAllCharacteristics_, element_,
                                                v % productOfAllCharacteristics_))
    \/ \E f \in Elements : ElementOp("assign", f, f)
    \/ \E v \in UInts : ElementOp("assign_raw", v, v % productOfAllCharacteristics_)
    \/ \E v \in UInts :
          FriendOp("friend_plus", v, friend_plus(productOfAllCharacteristics_, v, element_))
    \/ \E v \in UInts :
          FriendOp("friend_minus", v, friend_minus(productOfAllCharacteristics_, v, element_))
    \/ \E v \in UInts :
          FriendOp("friend_times", v, friend_times(productOfAllCharacteristics_, v, element_))

SpecField == InitField /\ [][NextField]_vars

\* ------------------------------------------------------ multi-field claims
IsPrime(n) == n > 1 /\ \A d \in 2 .. (n - 1) : n % d # 0

\* C17: initialize(min, max) throws invalid_argument exactly when max < 2, or
\* min > max, or no prime lies in min .. max; on every other interval it returns.
InitializeThrowsExactly ==
    last.op = "initialize" =>
        IF last.s < 2 \/ last.t > last.s \/ ~(\E n \in last.t .. last.s : IsPrime(n))
        THEN last.outcome = "throws"
        ELSE last.outcome = "returns"

FriendOps == {"friend_plus", "friend_minus", "friend_times"}

\* C18: the value of an element is in 0 .. N-1 after construction and after every
\* +=, -=, *= and assignment, and so is the result of unsigned + element,
\* unsigned - element and unsigned * element.
ElementInRange ==
    FieldReady =>
        /\ element_ \in Elements
        /\ last.op \in FriendOps => last.ret \in Elements

ElementInRangeWitness ==
    /\ FieldReady
    /\ last.op = "plus_eq" /\ last.t + last.s > UIntMax
    /\ element_ \in Elements

\* C19: a += b is (a + b) mod N, a *= b is (a * b) mod N and unsigned v + e is
\* (v + e) mod N, for a, b, e in 0 .. N-1 and v any unsigned value.
ArithmeticIsExact ==
    FieldReady =>
        /\ last.op = "plus_eq" =>
              element_ = (last.t + last.s) % productOfAllCharacteristics_
        /\ last.op = "times_eq" =>
              element_ = (last.t * last.s) % productOfAllCharacteristics_
        /\ last.op = "friend_plus" =>
              last.ret = (last.s + last.t) % productOfAllCharacteristics_

\* C20: an element constructed from the integer k, unsigned or int, holds the
\* value of 0 .. N-1 congruent to k modulo N.
ConstructIsCanonical ==
    (FieldReady /\ last.op \in {"construct_unsigned", "construct_int"}) =>
        element_ = last.s % productOfAllCharacteristics_

\* --------------------------------------------------- multi-field inverses
Abs(k) == IF k < 0 THEN -k ELSE k

\* int division and remainder, truncating towards zero (divisor not 0)
TruncDiv(a, b) ==
    IF (a < 0) = (b < 0) THEN Abs(a) \div Abs(b) ELSE -(Abs(a) \div Abs(b))

TruncRem(a, b) == a - b * TruncDiv(a, b)

\* std::gcd
RECURSIVE gcd(_, _)
gcd(a, b) == IF b = 0 THEN a ELSE gcd(b, a % b)

\* _get_inverse: the extended euclidean loop on int values. ub is set when a
\* step divides by zero or leaves the range of int (signed overflow).
RECURSIVE inverse_loop(_, _, _, _)
inverse_loop(A, M, x, y) ==
    IF A <= 1 THEN [ub |-> FALSE, x |-> x]
    ELSE IF M = 0 \/ (M = -1 /\ A = -(2^(W - 1))) THEN [ub |-> TRUE, x |-> x]
    ELSE LET quotient == TruncDiv(A, M)
             y2 == x - quotient * y
         IN IF quotient * y \notin Ints \/ y2 \notin Ints
            THEN [ub |-> TRUE, x |-> x]
            ELSE inverse_loop(M, TruncRem(A, M), y, y2)

\* _get_inverse(mod) on an element holding element; the int result as converted
\* to unsigned int by the caller.
get_inverse_mod(element, mod) ==
    LET r == inverse_loop(ToInt(element), ToInt(mod), 1, 0)
    IN [ub |-> r.ub,
        value |-> IF r.x < 0 THEN Wrap(ToUnsigned(r.x) + mod) ELSE r.x]

\* get_partial_multiplicative_identity: the loop over primes_ from idx on
RECURSIVE PartialIdentityLoop(_, _, _, _)
PartialIdentityLoop(f, element, idx, mult) ==
    IF idx > Len(f.primes_) THEN mult
    ELSE PartialIdentityLoop(f, element, idx + 1,
            IF element % f.primes_[idx] = 0
            THEN add(f.productOfAllCharacteristics_, mult,
                     f.partials_[idx] % f.productOfAllCharacteristics_)
            ELSE mult)

\* get_partial_multiplicative_identity() on an element holding element
get_partial_multiplicative_identity(f, element) ==
    IF element = 0 THEN construct_unsigned(f.productOfAllCharacteristics_, 1)
    ELSE PartialIdentityLoop(f, element, 1, 0)

\* get_partial_inverse(productOfCharacteristics) on an element holding element
get_partial_inverse(f, element, productOfCharacteristics) ==
    LET N == f.productOfAllCharacteristics_
        g == gcd(element, N)
    IN IF g = productOfCharacteristics
       THEN [ub |-> FALSE, first |-> 0, second |-> 1]
       ELSE LET QT == productOfCharacteristics \div g
                res == construct_unsigned(N, QT)
                inv_qt == get_inverse_mod(element, QT)
                id == get_partial_multiplicative_identity(f, res)
            IN [ub |-> inv_qt.ub,
                first |-> multiply(N, id, inv_qt.value % N),
                second |-> QT]

\* get_inverse() on an element holding element
get_inverse(f, element) ==
    get_partial_inverse(f, element, f.productOfAllCharacteristics_)

\* get_inverse() called on the element: ret is the value returned. Where the
\* computation overflows int, any value can come back.
GetInverse ==
    /\ FieldReady
    /\ \E res \in {get_inverse(Statics, element_)} :
          \E value \in (IF res.ub THEN UInts ELSE {res.first}) :
             last' = [NoLast EXCEPT !.op = "get_inverse", !.t = element_, !.ret = value,
                         !.stale = res.ub]
    /\ FieldUnchanged
    /\ FieldMatrixUnchanged

NextInverse ==
    \/ \E minimum, maximum \in 0 .. MaxCharacteristic : Initialize(minimum, maximum)
    \/ \E v \in UInts :
          ElementOp("construct_unsigned", v, construct_unsigned(productOfAllCharacteristics_, v))
    \/ GetInverse

SpecInverse == InitField /\ [][NextInverse]_vars

\* C21: for a unit e modulo N, e * e.get_inverse() is the multiplicative
\* identity and get_inverse() is in 0 .. N-1.
InverseOfUnit ==
    (last.op = "get_inverse" /\ gcd(last.t, productOfAllCharacteristics_) = 1) =>
        /\ last.ret \in Elements
        /\ multiply(productOfAllCharacteristics_, last.t, last.ret)
              = construct_unsigned(productOfAllCharacteristics_, 1)

\* C35: for the element a and every element b, a += b followed by a -= b gives
\* a back, a - a is the additive identity, and a + 0 and a * 1 are a.
AddThenSubstractRestores ==
    FieldReady =>
        \A b \in Elements :
            /\ substract(productOfAllCharacteristics_,
                         add(productOfAllCharacteristics_, element_, b), b) = element_
            /\ substract(productOfAllCharacteristics_, b, b) = 0
            /\ add(productOfAllCharacteristics_, b, 0) = b
            /\ multiply(productOfAllCharacteristics_, b, 1) = b

\* a -= b has just undone an a += b whose sum left the range of unsigned int.
AddThenSubstractRestoresWitness ==
    /\ last.op = "minus_eq"
    /\ UIntMax - element_ < last.s
    /\ add(productOfAllCharacteristics_, element_, last.s) = last.t
    /\ element_ # last.t

\* ------------------------------------------------ initialize called again
\* initialize(minimum, maximum) after a successful initialize.
InitializeAgain(minimum, maximum) ==
    /\ FieldReady
    /\ \E res \in {initialize(Statics, minimum, maximum)} :
          /\ productOfAllCharacteristics_' = res.f.productOfAllCharacteristics_
          /\ primes_' = res.f.primes_
          /\ partials_' = res.f.partials_
          /\ last' = [NoLast EXCEPT !.op = "initialize", !.t = minimum, !.s = maximum,
                         !.outcome = res.outcome, !.rep = TRUE]
    /\ UNCHANGED element_
    /\ FieldMatrixUnchanged

NextInitializeAgain ==
    \/ \E minimum, maximum \in 0 .. MaxCharacteristic : Initialize(minimum, maximum)
    \/ \E minimum, maximum \in UInts : InitializeAgain(minimum, maximum)

SpecInitializeAgain == InitField /\ [][NextInitializeAgain]_vars

\* C32: an initialize that throws leaves productOfAllCharacteristics_, primes_
\* and partials_ as they were before the call.
FailedInitializeKeepsState ==
    [][(last'.op = "initialize" /\ last'.rep /\ last'.outcome = "throws") =>
          UNCHANGED <<productOfAllCharacteristics_, primes_, partials_>>]_vars

\* The exact product of a set of numbers.
RECURSIVE ProductOf(_)
ProductOf(S) == IF S = {} THEN 1 ELSE LET n == Min(S) IN n * ProductOf(S \ {n})

PrimesIn(minimum, maximum) == {n \in minimum .. maximum : IsPrime(n)}

\* C33: after a successful initialize(min, max) the characteristic is the exact
\* product of the primes of min .. max, and partials_[i] is 1 modulo the i-th
\* prime and 0 modulo every other prime of the interval.
InitializeIsExact ==
    (last.op = "initialize" /\ last.outcome = "returns") =>
        /\ productOfAllCharacteristics_ = ProductOf(PrimesIn(last.t, last.s))
        /\ Range(primes_) = PrimesIn(last.t, last.s)
        /\ Len(partials_) = Len(primes_)
        /\ \A i, j \in 1..Len(primes_) :
              partials_[i] % primes_[j] = (IF i = j THEN 1 ELSE 0)

\* get_partial_inverse(productOfAllCharacteristics_) called on the element: ret
\* and ref are the pair returned. Where the computation overflows int, any value
\* can come back as the first component.
GetPartialInverse ==
    /\ FieldReady
    /\ \E res \in {get_partial_inverse(Statics, element_, productOfAllCharacteristics_)} :
          \E value \in (IF res.ub THEN UInts ELSE {res.first}) :
             last' = [NoLast EXCEPT !.op = "get_partial_inverse", !.t = element_,
                         !.ret = value, !.ref = res.second, !.stale = res.ub]
    /\ FieldUnchanged
    /\ FieldMatrixUnchanged

NextPartialInverse ==
    \/ \E minimum, maximum \in 0 .. MaxCharacteristic : Initialize(minimum, maximum)
    \/ \E v \in UInts :
          ElementOp("construct_unsigned", v, construct_unsigned(productOfAllCharacteristics_, v))
    \/ GetPartialInverse

SpecPartialInverse == InitField /\ [][NextPartialInverse]_vars

\* C34: with g = gcd(e, N), get_partial_inverse(N) returns (0, 1) when g = N and
\* otherwise (r, N/g) where e*r is 1 modulo every prime dividing N/g and r is 0
\* modulo every prime dividing g.
PartialInverseIsCrt ==
    last.op = "get_partial_inverse" =>
        \E g \in {gcd(last.t, productOfAllCharacteristics_)} :
            IF g = productOfAllCharacteristics_
            THEN last.ret = 0 /\ last.ref = 1
            ELSE /\ last.ref = productOfAllCharacteristics_ \div g
                 /\ \A q \in {n \in 2 .. productOfAllCharacteristics_ : IsPrime(n)} :
                       /\ (productOfAllCharacteristics_ \div g) % q = 0 =>
                             (last.t * last.ret) % q = 1
                       /\ g % q = 0 => last.ret % q = 0

\* ------------------------------------------------ faces with their own IDs
MaxFaceId == 4    \* face IDs are 0 .. MaxFaceId

\* Option lists whose index/row dictionaries are maps.
IdConfigs == {Opt(TRUE, TRUE, TRUE, TRUE, 0), Opt(TRUE, FALSE, FALSE, TRUE, 0)}

InitIds == \E o \in IdConfigs : Constructed(o)

\* The IDs of the faces of the matrix, in the order of their insertion.
FaceIds == last.pre2

IdsOf(ids) == {ids[k] : k \in 1..Len(ids)}

\* insert_boundary(faceIndex, boundary, dim): the ID is above the ID of every
\* face of the matrix and of the face removed last, the boundary is made of IDs
\* of faces of the matrix.
InsertBoundaryWithId(faceIndex, b, dimArg) ==
    /\ ~ub
    /\ nextInsertIndex_ < MaxColumns
    /\ CountersInRange
    /\ \A id \in IdsOf(FaceIds) : id < faceIndex
    /\ last.op = "remove_last" => last.t < faceIndex
    /\ \E res \in {insert_boundary(Self, faceIndex, b, dimArg, 0)} :
          /\ Apply(res.m)
          /\ live' = live + 1
          /\ last' = [NoLast EXCEPT !.op = "insert_boundary", !.ret = res.ret,
                         !.t = faceIndex, !.pre = b, !.dim = dimArg,
                         !.pre2 = Append(FaceIds, faceIndex)]

\* remove_last() of a face that is in no boundary.
RemoveLastFace ==
    /\ ~ub
    /\ nextInsertIndex_ > 0
    /\ CountersInRange
    /\ \A c \in DOMAIN matrix_ : ~is_non_zero(Cells(c), FaceIds[Len(FaceIds)])
    /\ \E res \in {remove_last(Self)} :
          /\ Apply(res.m)
          /\ live' = live - 1
          /\ last' = [NoLast EXCEPT !.op = "remove_last", !.ret = res.ret,
                         !.t = FaceIds[Len(FaceIds)],
                         !.pre2 = SubSeq(FaceIds, 1, Len(FaceIds) - 1)]

NextIds ==
    \/ \E faceIndex \in 0 .. MaxFaceId :
          \E b \in {SetToSeq(ids) : ids \in SUBSET IdsOf(FaceIds)} :
             InsertBoundaryWithId(faceIndex, b, -1)
    \/ RemoveLastFace

SpecIds == InitIds /\ [][NextIds]_vars

\* C30: with faces inserted under their own increasing IDs, remove_last() erases
\* the row and the two dictionary entries of the ID of the removed face, looks
\* up no absent key, and leaves the entries of the remaining faces as they are.
RemoveLastErasesOwnId ==
    [][last'.op = "remove_last" =>
          /\ ~ub'
          /\ last'.t \notin DOMAIN indexToRow_'
          /\ last'.t \notin DOMAIN rowToIndex_'
          /\ last'.t \notin DOMAIN rows_'
          /\ \A id \in IdsOf(last'.pre2) :
                /\ id \in DOMAIN indexToRow_' /\ indexToRow_'[id] = indexToRow_[id]
                /\ id \in DOMAIN rowToIndex_' /\ rowToIndex_'[id] = rowToIndex_[id]]_vars

\* ------------------------------------------------------------- pairing
\* A bar of the barcode: birth and death are column indices, death is None for
\* an infinite bar.
Bar(birth, death, dim) == [birth |-> birth, death |-> death, dim |-> dim]

\* Reduction of column i: columns recorded for its pivot are added to it until
\* its pivot is free or the column is zero.
RECURSIVE ReduceColumn(_, _, _)
ReduceColumn(m, i, pivotsToColumn) ==
    LET pivot == get_pivot(m.matrix_[i].column_)
    IN IF pivot # None /\ pivot \in DOMAIN pivotsToColumn
       THEN ReduceColumn(add_to(m, pivotsToColumn[pivot], i), i, pivotsToColumn)
       ELSE m

\* clear() of column c of the matrix
ClearColumn(m, c) ==
    LET st == clear(m.opts.has_row_access, m.matrix_[c].column_, m.rows_, c)
    IN [m EXCEPT !.matrix_[c].column_ = st.column, !.rows_ = st.rows]

\* The columns of dimension d from column i on, left to right: a column that
\* stays non-zero is paired with the column of its pivot, which is cleared; a
\* column reduced to zero starts an infinite bar.
RECURSIVE ReduceDimension(_, _, _)
ReduceDimension(st, d, i) ==
    IF i >= st.m.nextInsertIndex_ THEN st
    ELSE IF is_zero_column(st.m, i) \/ get_column_dimension(st.m, i) # d
         THEN ReduceDimension(st, d, i + 1)
    ELSE LET m1 == ReduceColumn(st.m, i, st.pivotsToColumn)
             pivot == get_pivot(m1.matrix_[i].column_)
         IN IF pivot # None
            THEN ReduceDimension([m |-> ClearColumn(m1, pivot),
                                  pivotsToColumn |-> Put(st.pivotsToColumn, pivot, i),
                                  barcode |-> st.barcode \cup {Bar(pivot, i, d - 1)}],
                                 d, i + 1)
            ELSE ReduceDimension([m |-> m1,
                                  pivotsToColumn |-> st.pivotsToColumn,
                                  barcode |-> st.barcode \cup {Bar(i, None, d)}],
                                 d, i + 1)

\* Dimensions from the maximal one down to 1.
RECURSIVE ReduceFrom(_, _)
ReduceFrom(st, d) == IF d < 1 THEN st ELSE ReduceFrom(ReduceDimension(st, d, 0), d - 1)

\* Reduction of the matrix and its barcode: after the columns of positive
\* dimension, every column of dimension 0 that pairs with no column is an
\* infinite bar.
reduce(m) ==
    LET st == ReduceFrom([m |-> m, pivotsToColumn |-> EmptyFun, barcode |-> {}], m.maxDim_)
    IN [m |-> st.m,
        barcode |-> st.barcode \cup
            {Bar(i, None, 0) : i \in {c \in 0 .. (m.nextInsertIndex_ - 1) :
                                         /\ get_column_dimension(m, c) = 0
                                         /\ c \notin DOMAIN st.pivotsToColumn}}]

\* get_current_barcode(): the matrix is reduced and its barcode returned. pre
\* and pre2 are the pivots and the columns as they were before the reduction.
GetCurrentBarcode ==
    /\ nextInsertIndex_ > 0
    /\ \E res \in {reduce(Self)} :
          /\ Apply(res.m)
          /\ last' = [NoLast EXCEPT !.op = "get_current_barcode",
                         !.barcode = res.barcode,
                         !.pre = [c \in 1..nextInsertIndex_ |->
                                     matrix_get_pivot(Self, c - 1).ret],
                         !.pre2 = [c \in 1..nextInsertIndex_ |->
                                      matrix_get_column(Self, c - 1).ret]]
    /\ UNCHANGED live

NextBarcode ==
    \/ \E b \in Boundaries : InsertBoundary(b, -1)
    \/ RemoveLast
    \/ GetCurrentBarcode

SpecBarcode == InitAdd /\ [][NextBarcode]_vars

\* C23: after the boundaries {}, {0}, {0,1} are inserted in this order, column 0
\* is empty with pivot none, column 1 is non-zero and column 2 has pivot 1; the
\* reduction gives the barcode of one infinite bar born at column 0 and one
\* finite bar pairing column 1 with column 2.
VertexVertexEdge ==
    (last.op = "get_current_barcode" /\ last.pre2 = << <<>>, <<0>>, <<0, 1>> >>) =>
        /\ last.pre[1] = None
        /\ last.pre[2] # None
        /\ last.pre[3] = 1
        /\ {[birth |-> bar.birth, death |-> bar.death] : bar \in last.barcode}
              = {[birth |-> 0, death |-> None], [birth |-> 1, death |-> 2]}

VertexVertexEdgeWitness ==
    /\ last.op = "get_current_barcode"
    /\ last.pre2 = << <<>>, <<0>>, <<0, 1>> >>
    /\ Cardinality(last.barcode) = 2
    /\ is_zero_column(Self, 1)

\* ------------------------------------------------------ cubical complexes
CellsPerDirection == 3    \* top-dimensional cells per direction in the complexes under test

\* Expected boundaries of the 3 x 3 complex without periodic conditions
\* (cells 0 .. 48; entry c + 1 is the boundary of cell c).
boundaries ==
    << <<>>, <<0, 2>>, <<>>, <<2, 4>>, <<>>, <<4, 6>>, <<>>,
       <<0, 14>>, <<1, 15, 9, 7>>, <<2, 16>>, <<3, 17, 11, 9>>, <<4, 18>>,
       <<5, 19, 13, 11>>, <<6, 20>>,
       <<>>, <<14, 16>>, <<>>, <<16, 18>>, <<>>, <<18, 20>>, <<>>,
       <<14, 28>>, <<15, 29, 23, 21>>, <<16, 30>>, <<17, 31, 25, 23>>, <<18, 32>>,
       <<19, 33, 27, 25>>, <<20, 34>>,
       <<>>, <<28, 30>>, <<>>, <<30, 32>>, <<>>, <<32, 34>>, <<>>,
       <<28, 42>>, <<29, 43, 37, 35>>, <<30, 44>>, <<31, 45, 39, 37>>, <<32, 46>>,
       <<33, 47, 41, 39>>, <<34, 48>>,
       <<>>, <<42, 44>>, <<>>, <<44, 46>>, <<>>, <<46, 48>>, <<>> >>

\* Expected boundaries of the 2 x 2 complex periodic in both directions
\* (cells 0 .. 15).
periodic_boundaries ==
    << <<>>, <<2, 0>>, <<>>, <<0, 2>>,
       <<8, 0>>, <<9, 1, 4, 6>>, <<10, 2>>, <<11, 3, 6, 4>>,
       <<>>, <<10, 8>>, <<>>, <<8, 10>>,
       <<0, 8>>, <<1, 9, 12, 14>>, <<2, 10>>, <<3, 11, 14, 12>> >>

\* Cells per direction: 2 * size + 1, the last position identified with the
\* first under periodic conditions.
Width(b, i) == IF b.periodic THEN 2 * b.sizes[i] ELSE 2 * b.sizes[i] + 1

RECURSIVE multipliers(_, _)
multipliers(b, i) == IF i = 1 THEN 1 ELSE multipliers(b, i - 1) * Width(b, i - 1)

\* Number of cells of the complex.
NumberOfCells(b) == multipliers(b, Len(b.sizes) + 1)

\* compute_counter_for_given_cell: position of the cell in direction i
Counter(b, cell, i) == (cell \div multipliers(b, i)) % Width(b, i)

\* get_boundary_of_a_cell: directions from the last to the first; a direction in
\* which the position is odd contributes two cells, their order alternating with
\* the number of odd directions already met.
RECURSIVE BoundaryLoop(_, _, _, _, _)
BoundaryLoop(b, cell, i, sum_of_dimensions, boundary_elements) ==
    IF i = 0 THEN boundary_elements
    ELSE LET m == multipliers(b, i)
             position == Counter(b, cell, i)
             wraps == b.periodic /\ position = 2 * b.sizes[i] - 1
             plus == IF wraps THEN cell - (2 * b.sizes[i] - 1) * m ELSE cell + m
             minus == cell - m
             pair == IF b.periodic
                     THEN (IF sum_of_dimensions % 2 = 1 THEN <<minus, plus>> ELSE <<plus, minus>>)
                     ELSE (IF sum_of_dimensions % 2 = 1 THEN <<plus, minus>> ELSE <<minus, plus>>)
         IN IF position % 2 = 1
            THEN BoundaryLoop(b, cell, i - 1, sum_of_dimensions + 1, boundary_elements \o pair)
            ELSE BoundaryLoop(b, cell, i - 1, sum_of_dimensions, boundary_elements)

get_boundary_of_a_cell(b, cell) == BoundaryLoop(b, cell, Len(b.sizes), 0, <<>>)

\* compute_incidence_between_cells(coface, face): -1 or 1 from the number of odd
\* positions of the coface up to the direction where the two cells differ and
\* from the side of the coface the face lies on.
compute_incidence_between_cells(b, coface, face) ==
    LET differs == CHOOSE i \in 1..Len(b.sizes) : Counter(b, coface, i) # Counter(b, face, i)
        number_of_full_faces_that_comes_before ==
            Cardinality({i \in 1..differs : Counter(b, coface, i) % 2 = 1})
        incidence == IF number_of_full_faces_that_comes_before % 2 = 1 THEN -1 ELSE 1
        on_the_right ==
            \/ Counter(b, coface, differs) + 1 = Counter(b, face, differs)
            \/ b.periodic /\ Counter(b, coface, differs) # 1 /\ Counter(b, face, differs) = 0
    IN IF on_the_right THEN -incidence ELSE incidence

same_sign(k) == 1

\* The sign of the k-th cell of a boundary range in the alternating sum.
Alternating(k) == IF k % 2 = 1 THEN 1 ELSE -1

\* The terms one cell adds to elems_in_boundary: <<cell of the second boundary,
\* coefficient>> for every path cell -> bd -> bd2.
Paths(b, cell) ==
    LET bdrange == get_boundary_of_a_cell(b, cell)
    IN { <<k, l>> \in (1..Len(bdrange)) \X (1..2 * Len(b.sizes)) :
            l <= Len(get_boundary_of_a_cell(b, bdrange[k])) }

\* The term of one path: the cell bd2 it ends on and the coefficient added there.
Term(b, cell, path) ==
    LET bd == get_boundary_of_a_cell(b, cell)[path[1]]
        bd2 == get_boundary_of_a_cell(b, bd)[path[2]]
    IN [path |-> path,
        bd2 |-> bd2,
        coefficient |->
            IF b.incidence
            THEN compute_incidence_between_cells(b, cell, bd)
                    * compute_incidence_between_cells(b, bd, bd2)
            ELSE Alternating(path[1]) * Alternating(path[2])]

Terms(b, cell) == {Term(b, cell, path) : path \in Paths(b, cell)}

RECURSIVE SumTerms(_)
SumTerms(terms) ==
    IF terms = {} THEN 0
    ELSE LET term == CHOOSE q \in terms : TRUE
         IN term.coefficient + SumTerms(terms \ {term})

\* elems_in_boundary[c]: the vector is held by its non-zero entries.
CoefficientOn(elems, c) == IF c \in DOMAIN elems THEN elems[c] ELSE 0

\* elems_in_boundary after elems_in_boundary[bd2] += coefficient for every term.
Accumulate(terms, elems) ==
    LET AfterOn(c) == CoefficientOn(elems, c) + SumTerms({term \in terms : term.bd2 = c})
    IN [c \in {d \in (DOMAIN elems) \cup {term.bd2 : term \in terms} : AfterOn(d) # 0}
           |-> AfterOn(c)]

\* The complexes of the boundary-of-boundary tests.
Uniform(d) == [i \in 1..d |-> CellsPerDirection]

Complexes ==
    {[sizes |-> Uniform(d), periodic |-> FALSE, incidence |-> FALSE] : d \in {3, 4}}
    \cup {[sizes |-> Uniform(d), periodic |-> TRUE, incidence |-> FALSE] : d \in {2, 3, 4}}
    \cup {[sizes |-> Uniform(3), periodic |-> q, incidence |-> TRUE] : q \in BOOLEAN}

InitCubical ==
    /\ opts = NoOpts /\ matrix_ = EmptyFun /\ rows_ = EmptyFun
    /\ nextInsertIndex_ = 0 /\ dimensions_ = <<>> /\ maxDim_ = -1
    /\ rowSwapped_ = FALSE /\ indexToRow_ = EmptyFun /\ rowToIndex_ = EmptyFun
    /\ chains = EmptyFun /\ pivotToColumnIndex_ = EmptyFun
    /\ live = 0 /\ ub = FALSE /\ other = NoMatrix /\ last = NoLast
    /\ FieldIdle
    /\ ba \in Complexes
    /\ all_cells_it = 0
    /\ elems_in_boundary = EmptyFun

\* One round of the loop over all cells: the paths through the boundary of the
\* cell the iterator stands on are accumulated, and the iterator advances.
CheckCell ==
    /\ all_cells_it < NumberOfCells(ba)
    /\ \E terms \in {Terms(ba, all_cells_it)} :
          elems_in_boundary' = Accumulate(terms, elems_in_boundary)
    /\ all_cells_it' = all_cells_it + 1
    /\ last' = [NoLast EXCEPT !.op = "check_cell", !.t = all_cells_it]
    /\ UNCHANGED ba
    /\ FieldUnchanged
    /\ UNCHANGED <<opts, matrix_, rows_, nextInsertIndex_, dimensions_, maxDim_,
                   rowSwapped_, indexToRow_, rowToIndex_, chains, pivotToColumnIndex_,
                   live, ub, other>>

NextCubical == CheckCell

SpecCubical == InitCubical /\ [][NextCubical]_vars

ExpectedBoundaries ==
    /\ \A c \in 0..48 :
          get_boundary_of_a_cell([sizes |-> <<3, 3>>, periodic |-> FALSE, incidence |-> FALSE], c)
             = boundaries[c + 1]
    /\ \A c \in 0..15 :
          get_boundary_of_a_cell([sizes |-> <<2, 2>>, periodic |-> TRUE, incidence |-> FALSE], c)
             = periodic_boundaries[c + 1]

====
